---- MODULE Spec2Model ----
(***************************************************************************)
(* A model of the multi-tier cache manager (src/src/cache_manager.rs):     *)
(* the tier ladder, the per-key request coalescer (in_flight_requests and  *)
(* CleanupGuard), the statistics counters and the constructors.            *)
(*                                                                         *)
(* Every public operation is an async fn.  Each `.await` of the source is  *)
(* a step boundary of the model: between two steps of one caller the steps *)
(* of the other callers may interleave, and a caller suspended at an await *)
(* may be cancelled (its future dropped), which runs the destructors of    *)
(* the guards it holds.  Durations are whole seconds.                      *)
(***************************************************************************)
EXTENDS Integers, Sequences, FiniteSets, TLC

(* ------------------------------ bounds --------------------------------- *)
NCallers == 2        \* concurrent callers of one manager (Spec)
NStampede == 3       \* concurrent get_or_compute_with callers (SpecStampede)
MaxOps == 3          \* manager calls started in one behaviour
MaxWrites == 2       \* set_with_strategy calls in one behaviour of SpecWrite
MaxTiers == 3        \* longest tier list handed to a constructor
MaxLevel == 3        \* largest tier_level tried
MaxScale == 2        \* largest ttl_scale tried
MaxCustomTTL == 2    \* largest CacheStrategy::Custom duration tried (seconds)
MaxTicks == 2        \* seconds of wall-clock time that pass in one behaviour
MaxBusOps == 2       \* invalidating calls and foreign publishes in one behaviour
MaxShutdowns == 2    \* calls of InvalidationSubscriber::shutdown in one behaviour
MaxAttempts == 2     \* connection attempts of the subscriber task that may fail or be lost

Callers == 1..(IF NCallers >= NStampede THEN NCallers ELSE NStampede)
Keys == {"k1", "k2"}
MutexIds == 1..(MaxOps + NStampede)

(* ------------------------------ options -------------------------------- *)
None == <<>>
Some(x) == <<x>>
IsSome(o) == o # <<>>
Unwrap(o) == o[1]

VARIABLES
  mgr,          \* "none" before construction, "ok" / "err" after it
  req,          \* the tier list handed to the constructor
  mode,         \* "legacy" (tiers = None in the source) or "multi"
  tiers,        \* CacheManager.tiers: Seq of [level, promo, scale]
  store,        \* store[t][k]: the backend of tier t, None or Some(entry)
  tierHits,     \* CacheTier.stats.hits per tier
  stats,        \* total_requests, l1_hits, l2_hits, misses, promotions
  in_flight,    \* in_flight_requests: key -> None or Some(mutex id)
  holder,       \* mutex id -> the caller holding its lock, 0 when free
  nextMutex,    \* the next Arc<Mutex<()>> to be allocated
  call,         \* per caller: the position and locals of its running call
  computeCount, \* per key: how many times compute_fn was invoked
  computed,     \* per key: the values compute_fn returned
  prev,         \* summary of the latest completed call
  clean,        \* per key: no failure, cancellation or foreign call so far
  opsStarted,   \* calls started so far
  ticks,        \* seconds elapsed
  audit,        \* whether the calls keep their audit fields (see Audited)
  invalidation, \* built by new_with_invalidation: publisher, subscriber and
                \* l2_cache_concrete are Some
  inbox,        \* per instance: the payloads its Pub/Sub connection has yet to hand over
  messages_sent,\* invalidation_stats.messages_sent
  sub_stats,    \* per instance: the counters of its subscriber
  peerL1,       \* the L1 cache of a second instance on the same channel and Redis
  applied,      \* per instance: the latest message its subscriber handled
  task,         \* the background task of A's subscriber: its position
  signal,       \* what shutdown_rx of the task has yet to receive
  shutdowns,    \* calls of shutdown() so far
  pub_lock      \* the caller holding the Mutex<InvalidationPublisher>, 0 when free

subVars == <<task, signal, shutdowns>>

busVars == <<invalidation, inbox, messages_sent, sub_stats, peerL1, applied, subVars,
             pub_lock>>

vars == <<mgr, req, mode, tiers, store, tierHits, stats, in_flight, holder,
          nextMutex, call, computeCount, computed, prev, clean, opsStarted,
          ticks, audit, busVars>>

(* ------------------------------ strategy ------------------------------- *)
Custom(d) == [kind |-> "Custom", d |-> d]
Named(n) == [kind |-> n, d |-> 0]

\* CacheStrategy::to_duration
ToDuration(s) ==
  CASE s.kind = "RealTime" -> 10
    [] s.kind = "ShortTerm" -> 300
    [] s.kind = "MediumTerm" -> 3600
    [] s.kind = "LongTerm" -> 10800
    [] s.kind = "Custom" -> s.d
    [] s.kind = "Default" -> 300

(* ------------------------------ tiers ---------------------------------- *)
TierConfigs == [level : 1..MaxLevel, promo : BOOLEAN, scale : 1..MaxScale]

RECURSIVE SeqsUpTo(_, _)
SeqsUpTo(S, n) ==
  IF n = 0 THEN {<<>>}
  ELSE LET shorter == SeqsUpTo(S, n - 1)
       IN shorter \cup {Append(q, x) : q \in {r \in shorter : Len(r) = n - 1}, x \in S}

\* The check of new_with_tiers: tiers[i].tier_level <= tiers[i-1].tier_level bails
NonStrictlySortedByLevel(ts) == \A i \in 2..Len(ts) : ~(ts[i].level < ts[i - 1].level)
SortedByLevel(ts) == \A i \in 2..Len(ts) : ~(ts[i].level <= ts[i - 1].level)

\* new_with_tiers returns Ok exactly for these lists
TiersAccepted(ts) == SortedByLevel(ts) /\ Len(ts) >= 1

\* Vec::sort_by_key(|(_, config)| config.tier_level): a stable insertion
RECURSIVE InsertByLevel(_, _)
InsertByLevel(sorted, x) ==
  IF sorted = <<>> THEN <<x>>
  ELSE IF sorted[Len(sorted)].level <= x.level THEN Append(sorted, x)
  ELSE Append(InsertByLevel(SubSeq(sorted, 1, Len(sorted) - 1), x), sorted[Len(sorted)])

RECURSIVE SortByLevel(_)
SortByLevel(ts) ==
  IF ts = <<>> THEN <<>>
  ELSE InsertByLevel(SortByLevel(SubSeq(ts, 1, Len(ts) - 1)), ts[Len(ts)])

\* number of backends the manager writes to
NTiers == IF mode = "legacy" THEN 2 ELSE Len(tiers)

(* ------------------------------ backends ------------------------------- *)
EmptyStore == [t \in 1..MaxTiers |-> [k \in Keys |-> None]]

\* An entry: the value and the remaining TTL (None: no expiration), and, for
\* the record, the write it came from: the TTL handed to the tier before
\* scaling (base), the operation (origin) and the time of the write (at).
Entry(v, ttl, base, origin) ==
  [val |-> v, ttl |-> ttl, base |-> base, origin |-> origin, at |-> ticks]

\* backend.get_with_ttl / backend.get
TopTierOnly(t, k) == IF t = 1 THEN store[t][k] ELSE None
Lookup(t, k) == store[t][k]

\* CacheTier::set_with_ttl: scaled_ttl = ttl * ttl_scale
UnscaledTtl(t, ttl) == ttl
ScaledTtl(t, ttl) == ttl * tiers[t].scale

\* what a write of (k, v, ttl) through tier t leaves in the tier's backend;
\* a backend drops an entry once now > expires_at
TierWrite(st, t, k, v, ttl, origin) ==
  [st EXCEPT ![t][k] = Some(Entry(v, Some(ScaledTtl(t, ttl)), ttl, origin))]

\* self.l1_cache.set_with_ttl / self.l2_cache.set_with_ttl of legacy mode
RawWrite(st, t, k, v, ttl, origin) ==
  [st EXCEPT ![t][k] = Some(Entry(v, Some(ttl), ttl, origin))]

\* serde_json::from_value::<T>: "bad" is a JSON value that is not a T
Deser(v) == v # "bad"

(* ------------------------------ invalidation messages ------------------ *)
\* The instances on one Pub/Sub channel: "A" is the manager modelled above
\* (its L1 is store[1]), "B" a second instance whose L1 is peerL1.  Both use
\* the same Redis, store[2].
Instances == {"A", "B"}

Patterns == {"k1", "k*", "z*"}

\* the glob MATCH of Redis SCAN, for the patterns above
Matches(k, p) == p = k \/ p = "k*"

\* enum InvalidationMessage
MsgRemove(k) == [type |-> "Remove", key |-> k]
MsgUpdate(k, v, t) == [type |-> "Update", key |-> k, value |-> v, ttl_secs |-> t]
MsgRemovePattern(p) == [type |-> "RemovePattern", pattern |-> p]
MsgRemoveBulk(ks) == [type |-> "RemoveBulk", keys |-> ks]

\* InvalidationMessage::update: ttl_secs = ttl.map(|d| d.as_secs())
UpdateOf(k, v, ttl) == MsgUpdate(k, v, IF IsSome(ttl) THEN Some(Unwrap(ttl)) ELSE None)

\* to_json: serde's internally tagged representation, a JSON object (here a
\* function from the member names present to their values) with a "type"
\* member; ttl_secs is left out when it is None (skip_serializing_if)
AlwaysTtlMember(m) ==
  [type |-> "Update", key |-> m.key, value |-> m.value,
   ttl_secs |-> IF IsSome(m.ttl_secs) THEN Unwrap(m.ttl_secs) ELSE 0]
UpdateToJson(m) ==
  IF IsSome(m.ttl_secs)
    THEN [type |-> "Update", key |-> m.key, value |-> m.value,
          ttl_secs |-> Unwrap(m.ttl_secs)]
    ELSE [type |-> "Update", key |-> m.key, value |-> m.value]

ToJson(m) ==
  CASE m.type = "Remove" -> [type |-> "Remove", key |-> m.key]
    [] m.type = "Update" -> UpdateToJson(m)
    [] m.type = "RemovePattern" -> [type |-> "RemovePattern", pattern |-> m.pattern]
    [] m.type = "RemoveBulk" -> [type |-> "RemoveBulk", keys |-> m.keys]

Has(j, member) == member \in DOMAIN j

\* from_json: None stands for Err.  The tag selects the variant, a missing
\* member of the variant is an error, a missing Option member is None, and
\* members the variant does not know are ignored.
FromJson(j) ==
  IF ~Has(j, "type") THEN None
  ELSE CASE j.type = "Remove" ->
              IF Has(j, "key") THEN Some(MsgRemove(j.key)) ELSE None
         [] j.type = "Update" ->
              IF Has(j, "key") /\ Has(j, "value")
                THEN Some(MsgUpdate(j.key, j.value,
                                    IF Has(j, "ttl_secs") THEN Some(j.ttl_secs) ELSE None))
                ELSE None
         [] j.type = "RemovePattern" ->
              IF Has(j, "pattern") THEN Some(MsgRemovePattern(j.pattern)) ELSE None
         [] j.type = "RemoveBulk" ->
              IF Has(j, "keys") THEN Some(MsgRemoveBulk(j.keys)) ELSE None
         [] OTHER -> None

\* AtomicInvalidationStats of a subscriber
NoSubStats ==
  [messages_received |-> 0, removes_received |-> 0, updates_received |-> 0,
   patterns_received |-> 0, bulk_removes_received |-> 0, processing_errors |-> 0]

\* The latest payload a subscriber handled: the message, the instance's L1
\* before and after the handler ran, whether the message handled just
\* before it was the same one, the keys on which the handler's cache call
\* returned Err, and what the handling added to processing_errors.
NoApplied ==
  [msg |-> None, before |-> <<>>, after |-> <<>>, again |-> FALSE, failed |-> {},
   counted |-> 0]

\* The background task of a subscriber: where it is suspended ("none": no
\* task was spawned), how many connections it has attempted, and, for the
\* record, whether its latest attempt began after shutdown() had been called
NoTask == [pc |-> "none", attempts |-> 0, late |-> FALSE]

(* ------------------------------ calls ---------------------------------- *)
Pending == [tag |-> "pending", val |-> ""]
Found(v) == [tag |-> "some", val |-> v]
NotFound == [tag |-> "none", val |-> ""]
SetOk == [tag |-> "ok", val |-> ""]
Failed == [tag |-> "err", val |-> ""]
Cancelled == [tag |-> "cancelled", val |-> ""]

NoPrev == [kind |-> "other", key |-> "k1", val |-> "", exp |-> 0]

\* the counters of a new manager: AtomicU64::new(0)
ZeroStats == [total_requests |-> 0, l1_hits |-> 0, l2_hits |-> 0,
              misses |-> 0, promotions |-> 0]
ZeroHits == [t \in 1..MaxTiers |-> 0]

IdleCall ==
  [pc |-> "idle", op |-> "none", key |-> "k1", val |-> "", ttl |-> 0,
   pttl |-> 0, mtx |-> 0, idx |-> 0, hit |-> 0, att |-> {}, succ |-> {},
   t1 |-> 0, at |-> 0, ret |-> Pending, p0 |-> 0, h0 |-> 0, pre |-> NoPrev,
   pat |-> "", keys |-> <<>>, rx |-> 0, c0 |-> 0, s0 |-> ZeroStats,
   n0 |-> ZeroHits]

\* The audit fields of a call record what a later check compares against:
\* the counters when the call started (p0, h0; all of them in s0, the
\* per-tier hit counts in n0), the summary of the call
\* before it (pre), the tiers a write was attempted on (att), the tier that
\* hit (hit), the time of that hit (at) and the expiry of the first-tier
\* entry written (t1), the payloads the subscriber had handled when the
\* call returned (rx) and the invocations of compute_fn for the key when the
\* call started (c0).  They are
\* history, not program state, and are kept only in audited behaviours.
Audited(cl) ==
  IF audit THEN cl
  ELSE [cl EXCEPT !.p0 = 0, !.h0 = 0, !.pre = NoPrev, !.att = {}, !.hit = 0,
                  !.t1 = 0, !.at = 0, !.rx = 0, !.c0 = 0, !.s0 = ZeroStats,
                  !.n0 = ZeroHits]

\* The locals of a call that has returned are gone
Returned(cl) ==
  IF audit THEN cl
  ELSE [cl EXCEPT !.val = "", !.ttl = 0, !.pttl = 0, !.idx = 0, !.succ = {}]

NewCall(o, k, v, ttl, pc0) ==
  Audited([IdleCall EXCEPT !.pc = pc0, !.op = o, !.key = k, !.val = v,
                           !.ttl = ttl, !.idx = 1, !.p0 = stats.promotions,
                           !.h0 = stats.l1_hits, !.pre = prev,
                           !.c0 = computeCount[k], !.s0 = stats,
                           !.n0 = tierHits])

\* Callers are numbered in the order of their first call
CanStart(c) ==
  /\ mgr = "ok"
  /\ call[c].pc \in {"idle", "done"}
  /\ \A d \in Callers : d < c => call[d].pc # "idle"
  /\ opsStarted < MaxOps

IsCompute(o) == o \in {"goc", "goct"}

\* the operations that go through the coalescer
IsRead(o) == o \in {"get", "goc", "goct"}

\* What the completed call of caller c leaves for the next call to look back on.
Summary(cl) ==
  IF cl.op = "set" /\ cl.ret = SetOk /\ cl.succ = 1..NTiers
    THEN [kind |-> "set_all", key |-> cl.key, val |-> cl.val, exp |-> cl.t1]
  ELSE IF cl.op = "get" /\ mode = "multi" /\ cl.hit > 1 /\ cl.ret.tag = "some"
          /\ cl.att # {} /\ cl.succ = 1..(cl.hit - 1)
    THEN [kind |-> "promoted", key |-> cl.key, val |-> cl.ret.val, exp |-> cl.t1]
  ELSE IF cl.op = "goc" /\ cl.ret = Failed
    THEN [kind |-> "compute_failed", key |-> cl.key, val |-> "", exp |-> 0]
  ELSE NoPrev

\* the call of c ends with result r
Finish(c, cl, r) ==
  LET done == [cl EXCEPT !.pc = "done", !.ret = r]
  IN /\ call' = [call EXCEPT ![c] = Returned(Audited(done))]
     /\ prev' = IF audit THEN Summary(done) ELSE NoPrev

\* the call of c goes on
Go(c, cl) ==
  /\ call' = [call EXCEPT ![c] = Audited(cl)]
  /\ prev' = prev

Bump(field) == [stats EXCEPT ![field] = @ + 1]

(* ------------------------------ constructors --------------------------- *)
\* CacheManager::new_with_tiers
NewWithTiers ==
  /\ mgr = "none"
  /\ IF TiersAccepted(req)
       THEN mgr' = "ok" /\ tiers' = req /\ mode' = "multi"
       ELSE mgr' = "err" /\ tiers' = <<>> /\ mode' = mode
  /\ UNCHANGED <<busVars, req, store, tierHits, stats, in_flight, holder, nextMutex,
                 call, computeCount, computed, prev, clean, opsStarted, ticks, audit>>

\* CacheSystemBuilder::build: an empty tier list builds the legacy manager,
\* any other list is sorted by level and handed to new_with_tiers
Build ==
  /\ mgr = "none"
  /\ IF req = <<>>
       THEN mgr' = "ok" /\ tiers' = <<>> /\ mode' = "legacy"
       ELSE IF TiersAccepted(SortByLevel(req))
         THEN mgr' = "ok" /\ tiers' = SortByLevel(req) /\ mode' = "multi"
         ELSE mgr' = "err" /\ tiers' = <<>> /\ mode' = mode
  /\ UNCHANGED <<busVars, req, store, tierHits, stats, in_flight, holder, nextMutex,
                 call, computeCount, computed, prev, clean, opsStarted, ticks, audit>>

(* ------------------------------ starting a call ------------------------ *)
\* get: total_requests.fetch_add(1)
StartGet(c, k) ==
  /\ CanStart(c)
  /\ stats' = Bump("total_requests")
  /\ call' = [call EXCEPT ![c] = NewCall("get", k, "", 0, "fast")]
  /\ clean' = [clean EXCEPT ![k] = FALSE]
  /\ opsStarted' = opsStarted + 1
  /\ UNCHANGED <<busVars, mgr, req, mode, tiers, store, tierHits, in_flight, holder,
                 nextMutex, computeCount, computed, prev, ticks, audit>>

\* get_or_compute_with / get_or_compute_typed: total_requests.fetch_add(1)
StartCompute(c, o, k, s) ==
  /\ CanStart(c)
  /\ IsCompute(o)
  /\ stats' = Bump("total_requests")
  /\ call' = [call EXCEPT ![c] = NewCall(o, k, "", ToDuration(s), "fast")]
  /\ clean' = [clean EXCEPT ![k] = @ /\ o = "goc"]
  /\ opsStarted' = opsStarted + 1
  /\ UNCHANGED <<busVars, mgr, req, mode, tiers, store, tierHits, in_flight, holder,
                 nextMutex, computeCount, computed, prev, ticks, audit>>

\* set_with_strategy: ttl = strategy.to_duration()
StartSet(c, k, v, s) ==
  /\ CanStart(c)
  /\ call' = [call EXCEPT ![c] = NewCall("set", k, v, ToDuration(s), "store")]
  /\ clean' = [clean EXCEPT ![k] = FALSE]
  /\ opsStarted' = opsStarted + 1
  /\ UNCHANGED <<busVars, mgr, req, mode, tiers, store, tierHits, stats, in_flight,
                 holder, nextMutex, computeCount, computed, prev, ticks, audit>>

(* ------------------------------ the read path -------------------------- *)
\* Does the lookup of the first tier end the call?  get and
\* get_or_compute_with return any value found; get_or_compute_typed returns
\* it only when it deserializes to T.
FirstTierIgnored(cl, e) == FALSE
TypedSkipsTop(cl, e) == IsSome(e) /\ cl.op # "goct"
HitWhenUncontended(cl, e) == IsSome(e) /\ in_flight[cl.key] = None
TopTierHit(cl, e) == IsSome(e) /\ (cl.op = "goct" => Deser(Unwrap(e).val))

\* tier1.record_hit() is called by get in multi-tier mode only
TopHits(cl, e) ==
  IF IsSome(e) /\ cl.op = "get" /\ mode = "multi"
    THEN [tierHits EXCEPT ![1] = @ + 1] ELSE tierHits

\* Fast path: the first-tier lookup made before any locking
FastPath(c) ==
  LET cl == call[c]
      e == Lookup(1, cl.key)
  IN /\ cl.pc = "fast"
     /\ stats' = IF IsSome(e) THEN Bump("l1_hits") ELSE stats
     /\ tierHits' = TopHits(cl, e)
     /\ IF TopTierHit(cl, e)
          THEN Finish(c, cl, Found(Unwrap(e).val))
          ELSE Go(c, [cl EXCEPT !.pc = "entry"])
     /\ UNCHANGED <<busVars, mgr, req, mode, tiers, store, in_flight, holder, nextMutex,
                    computeCount, computed, clean, opsStarted, ticks, audit>>

\* in_flight_requests.entry(key).or_insert_with(|| Arc::new(Mutex::new(()))).clone()
Entry_(c) ==
  LET cl == call[c]
      cur == in_flight[cl.key]
  IN /\ cl.pc = "entry"
     /\ IF IsSome(cur)
          THEN /\ Go(c, [cl EXCEPT !.pc = "lock", !.mtx = Unwrap(cur)])
               /\ UNCHANGED <<in_flight, nextMutex>>
          ELSE /\ Go(c, [cl EXCEPT !.pc = "lock", !.mtx = nextMutex])
               /\ in_flight' = [in_flight EXCEPT ![cl.key] = Some(nextMutex)]
               /\ nextMutex' = nextMutex + 1
     /\ UNCHANGED <<busVars, mgr, req, mode, tiers, store, tierHits, stats, holder,
                    computeCount, computed, clean, opsStarted, ticks, audit>>

\* lock_guard.lock().await completes; the CleanupGuard is built right after it
Lock(c) ==
  LET cl == call[c]
  IN /\ cl.pc = "lock"
     /\ holder[cl.mtx] = 0
     /\ holder' = [holder EXCEPT ![cl.mtx] = c]
     /\ Go(c, [cl EXCEPT !.pc = "dcheck"])
     /\ UNCHANGED <<busVars, mgr, req, mode, tiers, store, tierHits, stats, in_flight,
                    nextMutex, computeCount, computed, clean, opsStarted, ticks, audit>>

\* Where a caller continues once the first tier missed under the lock:
\* get_multi_tier scans from the first tier again, the legacy get and the
\* compute operations go on with the second backend; with no second tier a
\* compute operation invokes compute_fn at once.
AfterTop(cl) ==
  IF cl.op = "get"
    THEN [cl EXCEPT !.pc = "lower", !.idx = IF mode = "multi" THEN 1 ELSE 2]
  ELSE IF NTiers >= 2
    THEN [cl EXCEPT !.pc = "lower", !.idx = 2]
  ELSE [cl EXCEPT !.pc = "compute"]

\* compute_fn is invoked when a call moves to "compute"
Invoked(cl, nxt) ==
  IF nxt.pc = "compute" /\ cl.pc # "compute"
    THEN [computeCount EXCEPT ![cl.key] = @ + 1] ELSE computeCount

\* The double-check: the first tier is looked up again under the lock
NoDoubleCheck(cl, e) == FALSE
DoubleCheckHit(cl, e) == TopTierHit(cl, e)

\* Double-check of the first tier after the lock was acquired
DoubleCheck(c) ==
  LET cl == call[c]
      e == Lookup(1, cl.key)
      nxt == IF DoubleCheckHit(cl, e)
               THEN [cl EXCEPT !.pc = "release", !.ret = Found(Unwrap(e).val)]
               ELSE AfterTop(cl)
  IN /\ cl.pc = "dcheck"
     /\ stats' = IF IsSome(e) THEN Bump("l1_hits") ELSE stats
     /\ tierHits' = TopHits(cl, e)
     /\ Go(c, nxt)
     /\ computeCount' = Invoked(cl, nxt)
     /\ UNCHANGED <<busVars, mgr, req, mode, tiers, store, in_flight, holder, nextMutex,
                    computed, clean, opsStarted, ticks, audit>>

\* ttl.unwrap_or_else(..): get falls back on CacheStrategy::Default, the
\* compute operations on their own strategy
PromotionTtl(cl, e) ==
  IF IsSome(e.ttl) THEN Unwrap(e.ttl)
  ELSE IF cl.op = "get" THEN ToDuration(Named("Default")) ELSE cl.ttl

\* get in multi-tier mode: if result.is_some() and tiers.len() >= 2, l2_hits += 1
AccountHit(st) == IF NTiers >= 2 THEN [st EXCEPT !.l2_hits = @ + 1] ELSE st

\* One lookup of get_multi_tier (get, multi-tier mode) at tier cl.idx
LowerGetMulti(cl, e) ==
  LET t == cl.idx
  IN IF IsSome(e)
       THEN IF tiers[t].promo /\ t > 1
              THEN [st |-> stats,
                    nxt |-> [cl EXCEPT !.pc = "promote", !.idx = t - 1, !.hit = t,
                                       !.at = ticks, !.val = Unwrap(e).val,
                                       !.pttl = PromotionTtl(cl, Unwrap(e))]]
              ELSE [st |-> AccountHit(stats),
                    nxt |-> [cl EXCEPT !.pc = "release", !.hit = t,
                                       !.at = ticks, !.ret = Found(Unwrap(e).val)]]
       ELSE IF t < NTiers
              THEN [st |-> stats, nxt |-> [cl EXCEPT !.idx = t + 1]]
              ELSE [st |-> [stats EXCEPT !.misses = @ + 1],
                    nxt |-> [cl EXCEPT !.pc = "release", !.ret = NotFound]]

\* The L2 lookup of the legacy get
LowerGetLegacy(cl, e) ==
  IF IsSome(e)
    THEN [st |-> [stats EXCEPT !.l2_hits = @ + 1],
          nxt |-> [cl EXCEPT !.pc = "promote", !.idx = 1, !.hit = 2,
                             !.at = ticks, !.val = Unwrap(e).val,
                             !.pttl = PromotionTtl(cl, Unwrap(e))]]
    ELSE [st |-> [stats EXCEPT !.misses = @ + 1],
          nxt |-> [cl EXCEPT !.pc = "release", !.ret = NotFound]]

\* One lower-tier lookup of get_or_compute_with / get_or_compute_typed:
\* tiers.iter().skip(1) in multi-tier mode, l2_cache in legacy mode
LowerCompute(cl, e) ==
  LET t == cl.idx
      st == IF IsSome(e) /\ mode = "legacy"
              THEN [stats EXCEPT !.l2_hits = @ + 1] ELSE stats
      on == IF mode = "multi" /\ t < NTiers
              THEN [cl EXCEPT !.idx = t + 1] ELSE [cl EXCEPT !.pc = "compute"]
  IN IF IsSome(e) /\ (cl.op = "goct" => Deser(Unwrap(e).val))
       THEN [st |-> st,
             nxt |-> [cl EXCEPT !.pc = "promote", !.idx = 1, !.hit = t,
                                !.at = ticks, !.val = Unwrap(e).val,
                                !.pttl = PromotionTtl(cl, Unwrap(e))]]
       ELSE [st |-> st, nxt |-> on]

\* tier.record_hit() on a hit below the lock (multi-tier mode)
HitsDownTo(cl, e) ==
  IF IsSome(e) /\ mode = "multi"
    THEN [j \in 1..MaxTiers |-> IF j <= cl.idx THEN tierHits[j] + 1 ELSE tierHits[j]]
    ELSE tierHits
LowerHits(cl, e) ==
  IF IsSome(e) /\ mode = "multi"
    THEN [tierHits EXCEPT ![cl.idx] = @ + 1] ELSE tierHits

\* A lookup below the lock, tier.get_with_ttl(key).await, that answers e
LowerAs(c, e) ==
  LET cl == call[c]
      r == IF cl.op = "get"
             THEN IF mode = "multi" THEN LowerGetMulti(cl, e) ELSE LowerGetLegacy(cl, e)
             ELSE LowerCompute(cl, e)
  IN /\ cl.pc = "lower"
     /\ stats' = r.st
     /\ tierHits' = LowerHits(cl, e)
     /\ Go(c, r.nxt)
     /\ computeCount' = Invoked(cl, r.nxt)
     /\ UNCHANGED <<busVars, mgr, req, mode, tiers, store, in_flight, holder, nextMutex,
                    computed, clean, opsStarted, ticks, audit>>

\* The backend answers with the entry and its remaining TTL
Lower(c) ==
  /\ call[c].pc = "lower"
  /\ LowerAs(c, Lookup(call[c].idx, call[c].key))

\* get_with_ttl of a backend that finds the value but reports no TTL:
\* `if ttl_secs > 0 { Some(..) } else { None }`, where the Redis TTL command
\* answers in whole seconds (0 in the last half second of an entry) and its
\* failure is read as -1
NoTtl(e) == Some([Unwrap(e) EXCEPT !.ttl = None])

LowerNoTtl(c) ==
  /\ call[c].pc = "lower"
  /\ IsSome(Lookup(call[c].idx, call[c].key))
  /\ LowerAs(c, NoTtl(Lookup(call[c].idx, call[c].key)))

(* ------------------------------ promotion ------------------------------ *)
\* The tier written after tier j by the promotion loop of get_multi_tier,
\* tiers[..tier_index].iter().rev(); 0 when j was the last one
OnlyNearestTier(j) == 0
NextPromotionTarget(j) == j - 1

\* promotions.fetch_add(1) in the else branch of `if let Err(e) = ..set_with_ttl(..)`
CountedAnyway(ok) == Bump("promotions")
PromotionCounted(ok) == IF ok THEN Bump("promotions") ELSE stats

\* One promotion write, set_with_ttl(key, value, promotion_ttl).await, which
\* succeeds (ok) or fails.  get in multi-tier mode writes every tier above
\* the hit; every other path writes the first tier only.
Promote(c, ok) ==
  LET cl == call[c]
      j == cl.idx
      written == IF mode = "multi"
                   THEN TierWrite(store, j, cl.key, cl.val, cl.pttl, "promo")
                   ELSE RawWrite(store, j, cl.key, cl.val, cl.pttl, "promo")
      more == cl.op = "get" /\ mode = "multi" /\ NextPromotionTarget(j) >= 1
      cl1 == [cl EXCEPT !.att = @ \cup {j},
                        !.succ = IF ok THEN @ \cup {j} ELSE @,
                        !.t1 = IF ok /\ j = 1
                                 THEN ticks + Unwrap(Unwrap(written[1][cl.key]).ttl)
                                 ELSE @]
  IN /\ cl.pc = "promote"
     /\ store' = IF ok THEN written ELSE store
     /\ stats' = LET s1 == PromotionCounted(ok)
                 IN IF ~more /\ cl.op = "get" /\ mode = "multi"
                      THEN AccountHit(s1) ELSE s1
     /\ IF more
          THEN Go(c, [cl1 EXCEPT !.idx = NextPromotionTarget(j)])
          ELSE Go(c, [cl1 EXCEPT !.pc = "release", !.ret = Found(cl.val)])
     /\ clean' = [clean EXCEPT ![cl.key] = @ /\ ok]
     /\ UNCHANGED <<busVars, mgr, req, mode, tiers, tierHits, in_flight, holder,
                    nextMutex, computeCount, computed, opsStarted, ticks, audit>>

(* ------------------------------ compute and write ---------------------- *)
\* compute_fn().await returns: r is "err" or the computed value; ser tells
\* whether serde_json::to_value succeeds (get_or_compute_typed only)
ComputeDone(c, r, ser) ==
  LET cl == call[c]
      good == r # "err" /\ (cl.op = "goct" => ser)
  IN /\ cl.pc = "compute"
     /\ (cl.op = "goc" => ser)
     /\ computed' = IF r # "err"
                      THEN [computed EXCEPT ![cl.key] = @ \cup {r}] ELSE computed
     /\ IF good
          THEN Go(c, [cl EXCEPT !.pc = "store", !.idx = 1, !.val = r,
                                !.att = {}, !.succ = {}])
          ELSE Go(c, [cl EXCEPT !.pc = "release", !.ret = Failed])
     /\ clean' = [clean EXCEPT ![cl.key] = @ /\ good]
     /\ UNCHANGED <<busVars, mgr, req, mode, tiers, store, tierHits, stats, in_flight,
                    holder, nextMutex, computeCount, opsStarted, ticks, audit>>

\* Can the operation on tier t fail?  new_with_invalidation takes the
\* concrete L1Cache, whose remove and set_with_ttl always return Ok; every
\* other backend is a trait object or Redis.
CanFail(t) == ~(invalidation /\ t = 1)

\* Where an invalidating operation goes once its tier operations are over:
\* `?` returns their error at once; with a publisher the message is
\* published next, without one the operation returns Ok
AfterTiers(c, cl, r) ==
  IF r = SetOk /\ invalidation
    THEN Go(c, [cl EXCEPT !.pc = "pub_lock"])
    ELSE Finish(c, cl, r)

\* The tier set_with_strategy writes after tier t (0: none, the loop ends)
StopAtFirstFailure(t, ok) == IF ok /\ t < NTiers THEN t + 1 ELSE 0
NextWriteTarget(t, ok) == IF t < NTiers THEN t + 1 ELSE 0

\* The result of set_with_strategy from the set of tiers written
SetResult(succ) == IF succ # {} THEN SetOk ELSE Failed

\* One tier write of set_with_strategy, which succeeds (ok) or fails.  After
\* the last tier the call returns: set_with_strategy its own result, the
\* compute operations the fresh value whatever the writes did.
Store(c, ok) ==
  LET cl == call[c]
      t == cl.idx
      written == IF mode = "multi"
                   THEN TierWrite(store, t, cl.key, cl.val, cl.ttl, "set")
                   ELSE RawWrite(store, t, cl.key, cl.val, cl.ttl, "set")
      cl1 == [cl EXCEPT !.att = @ \cup {t},
                        !.succ = IF ok THEN @ \cup {t} ELSE @,
                        !.t1 = IF ok /\ t = 1
                                 THEN ticks + Unwrap(Unwrap(written[1][cl.key]).ttl)
                                 ELSE @]
      nt == NextWriteTarget(t, ok)
  IN /\ cl.pc = "store"
     /\ ok \/ CanFail(t)
     /\ store' = IF ok THEN written ELSE store
     /\ IF nt # 0
          THEN Go(c, [cl1 EXCEPT !.idx = nt])
          ELSE IF cl.op = "set"
            THEN Finish(c, cl1, SetResult(cl1.succ))
          ELSE IF cl.op = "set_bcast"
            THEN AfterTiers(c, cl1, SetResult(cl1.succ))
            ELSE Go(c, [cl1 EXCEPT !.pc = "release", !.ret = Found(cl.val)])
     /\ clean' = [clean EXCEPT ![cl.key] = @ /\ ok]
     /\ UNCHANGED <<busVars, mgr, req, mode, tiers, tierHits, stats, in_flight, holder,
                    nextMutex, computeCount, computed, opsStarted, ticks, audit>>

(* ------------------------------ leaving the coalescer ------------------ *)
\* CleanupGuard::drop: self.map.remove(&self.key)
EntryKept(map, cl) == map
AfterCleanup(map, cl) == [map EXCEPT ![cl.key] = None]

\* The guards of a returning (or cancelled) caller are dropped in reverse
\* order of declaration: first the CleanupGuard ...
Release(c) ==
  LET cl == call[c]
  IN /\ cl.pc = "release"
     /\ in_flight' = AfterCleanup(in_flight, cl)
     /\ Go(c, [cl EXCEPT !.pc = "unlock"])
     /\ UNCHANGED <<busVars, mgr, req, mode, tiers, store, tierHits, stats, holder,
                    nextMutex, computeCount, computed, clean, opsStarted, ticks, audit>>

\* MutexGuard::drop: the lock is free again
StillLocked(h, m) == h
Unlocked(h, m) == [h EXCEPT ![m] = 0]

\* ... then the MutexGuard, and the call has returned
Unlock(c) ==
  LET cl == call[c]
  IN /\ cl.pc = "unlock"
     /\ holder' = Unlocked(holder, cl.mtx)
     /\ Finish(c, [cl EXCEPT !.mtx = 0], cl.ret)
     /\ UNCHANGED <<busVars, mgr, req, mode, tiers, store, tierHits, stats, in_flight,
                    nextMutex, computeCount, computed, clean, opsStarted, ticks, audit>>

\* The positions at which a call is suspended in an `.await`
AwaitPcs == {"fast", "lock", "dcheck", "lower", "promote", "compute", "store"}

\* Does the caller own a CleanupGuard (and the mutex) at this position?
HasGuard(cl) ==
  IsRead(cl.op) /\ cl.pc \in {"dcheck", "lower", "promote", "compute", "store"}

\* The caller's future is dropped at an await (select!, timeout, abort).
\* lock().await is such a point whether or not the mutex is free: the
\* acquire future yields when the lock is taken and when the task has used
\* up its cooperative budget.  No CleanupGuard exists before it completes.
Cancel(c) ==
  LET cl == call[c]
  IN /\ cl.pc \in AwaitPcs
     /\ IF HasGuard(cl)
          THEN Go(c, [cl EXCEPT !.pc = "release", !.ret = Cancelled])
          ELSE Finish(c, [cl EXCEPT !.mtx = 0], Cancelled)
     /\ clean' = [clean EXCEPT ![cl.key] = FALSE]
     /\ UNCHANGED <<busVars, mgr, req, mode, tiers, store, tierHits, stats, in_flight,
                    holder, nextMutex, computeCount, computed, opsStarted, ticks, audit>>

(* ------------------------------ invalidating operations ---------------- *)
\* CacheTier::remove / backend.remove
RemoveFrom(st, t, k) == [st EXCEPT ![t][k] = None]

\* The tier an invalidating operation turns to after tier t (0: none).  In
\* multi-tier mode a failure is logged and the loop goes on; in legacy mode
\* each operation ends in `?`.
NextTierTarget(t, ok) ==
  IF mode = "multi" THEN (IF t < NTiers THEN t + 1 ELSE 0)
  ELSE IF ok /\ t < 2 THEN t + 1 ELSE 0

\* The result of the tier operations when the last of them was ok or not
TierResult(ok) == IF mode = "multi" \/ ok THEN SetOk ELSE Failed

\* invalidate
StartInvalidate(c, k) ==
  /\ CanStart(c)
  /\ call' = [call EXCEPT ![c] = NewCall("invalidate", k, "", 0, "remove")]
  /\ clean' = [clean EXCEPT ![k] = FALSE]
  /\ opsStarted' = opsStarted + 1
  /\ UNCHANGED <<busVars, mgr, req, mode, tiers, store, tierHits, stats, in_flight,
                 holder, nextMutex, computeCount, computed, prev, ticks, audit>>

\* One tier.remove(key).await of invalidate, which succeeds (ok) or fails
InvalidateStep(c, ok) ==
  LET cl == call[c]
      t == cl.idx
      cl1 == [cl EXCEPT !.att = @ \cup {t}, !.succ = IF ok THEN @ \cup {t} ELSE @]
      nt == NextTierTarget(t, ok)
  IN /\ cl.pc = "remove"
     /\ ok \/ CanFail(t)
     /\ store' = IF ok THEN RemoveFrom(store, t, cl.key) ELSE store
     /\ IF nt # 0
          THEN Go(c, [cl1 EXCEPT !.idx = nt])
          ELSE AfterTiers(c, cl1, TierResult(ok))
     /\ UNCHANGED <<busVars, mgr, req, mode, tiers, tierHits, stats, in_flight, holder,
                    nextMutex, computeCount, computed, clean, opsStarted, ticks, audit>>

\* update_cache: ttl = ttl.unwrap_or(CacheStrategy::Default.to_duration())
StartUpdate(c, k, v, ttl) ==
  /\ CanStart(c)
  /\ call' = [call EXCEPT ![c] =
                NewCall("update", k, v,
                        IF IsSome(ttl) THEN Unwrap(ttl) ELSE ToDuration(Named("Default")),
                        "write")]
  /\ clean' = [clean EXCEPT ![k] = FALSE]
  /\ opsStarted' = opsStarted + 1
  /\ UNCHANGED <<busVars, mgr, req, mode, tiers, store, tierHits, stats, in_flight,
                 holder, nextMutex, computeCount, computed, prev, ticks, audit>>

\* One tier write of update_cache, which succeeds (ok) or fails
UpdateStep(c, ok) ==
  LET cl == call[c]
      t == cl.idx
      written == IF mode = "multi"
                   THEN TierWrite(store, t, cl.key, cl.val, cl.ttl, "update")
                   ELSE RawWrite(store, t, cl.key, cl.val, cl.ttl, "update")
      cl1 == [cl EXCEPT !.att = @ \cup {t}, !.succ = IF ok THEN @ \cup {t} ELSE @]
      nt == NextTierTarget(t, ok)
  IN /\ cl.pc = "write"
     /\ ok \/ CanFail(t)
     /\ store' = IF ok THEN written ELSE store
     /\ IF nt # 0
          THEN Go(c, [cl1 EXCEPT !.idx = nt])
          ELSE AfterTiers(c, cl1, TierResult(ok))
     /\ UNCHANGED <<busVars, mgr, req, mode, tiers, tierHits, stats, in_flight, holder,
                    nextMutex, computeCount, computed, clean, opsStarted, ticks, audit>>

\* set_with_broadcast: set_with_strategy(..).await? (the Store steps), then
\* the publish
StartSetBroadcast(c, k, v, s) ==
  /\ CanStart(c)
  /\ call' = [call EXCEPT ![c] = NewCall("set_bcast", k, v, ToDuration(s), "store")]
  /\ clean' = [clean EXCEPT ![k] = FALSE]
  /\ opsStarted' = opsStarted + 1
  /\ UNCHANGED <<busVars, mgr, req, mode, tiers, store, tierHits, stats, in_flight,
                 holder, nextMutex, computeCount, computed, prev, ticks, audit>>

\* the keys of a Vec<String>
Range(q) == {q[i] : i \in 1..Len(q)}

\* the orders in which a SCAN may return the keys of S
Orderings(S) ==
  {q \in SeqsUpTo(S, Cardinality(S)) : Len(q) = Cardinality(S) /\ Range(q) = S}

\* L2Cache::scan_keys: the keys Redis holds that match the pattern
ScanKeys(p) == {k \in Keys : IsSome(store[2][k]) /\ Matches(k, p)}

\* invalidate_pattern: without l2_cache_concrete it returns Err at once
StartInvalidatePattern(c, p) ==
  LET cl == [NewCall("inv_pattern", "k1", "", 0, "scan") EXCEPT !.pat = p]
  IN /\ CanStart(c)
     /\ IF invalidation
          THEN call' = [call EXCEPT ![c] = cl] /\ prev' = prev
          ELSE Finish(c, cl, Failed)
     /\ clean' = [k \in Keys |-> FALSE]
     /\ opsStarted' = opsStarted + 1
     /\ UNCHANGED <<busVars, mgr, req, mode, tiers, store, tierHits, stats, in_flight,
                    holder, nextMutex, computeCount, computed, ticks, audit>>

\* l2.scan_keys(pattern).await?: no key found returns Ok at once.  (The
\* multi-tier branch that follows in the source cannot be reached:
\* new_with_tiers leaves l2_cache_concrete None.)
Scan(c, ok) ==
  LET cl == call[c]
      cl1 == [cl EXCEPT !.att = {2}, !.succ = IF ok THEN {2} ELSE {}]
  IN /\ cl.pc = "scan"
     /\ IF ~ok THEN Finish(c, cl1, Failed)
        ELSE IF ScanKeys(cl.pat) = {} THEN Finish(c, cl1, SetOk)
        ELSE \E ks \in Orderings(ScanKeys(cl.pat)) :
               Go(c, [cl1 EXCEPT !.pc = "bulk", !.keys = ks])
     /\ UNCHANGED <<busVars, mgr, req, mode, tiers, store, tierHits, stats, in_flight,
                    holder, nextMutex, computeCount, computed, clean, opsStarted,
                    ticks, audit>>

\* L2Cache::remove_bulk: DEL of the keys found
WithoutKeys(l, S) == [k \in Keys |-> IF k \in S THEN None ELSE l[k]]

\* legacy branch of invalidate_pattern: l2.remove_bulk(&keys).await?
RemoveBulk(c, ok) ==
  LET cl == call[c]
      cl1 == [cl EXCEPT !.succ = IF ok THEN @ ELSE {}]
  IN /\ cl.pc = "bulk"
     /\ store' = IF ok THEN [store EXCEPT ![2] = WithoutKeys(@, Range(cl.keys))] ELSE store
     /\ AfterTiers(c, cl1, IF ok THEN SetOk ELSE Failed)
     /\ UNCHANGED <<busVars, mgr, req, mode, tiers, tierHits, stats, in_flight, holder,
                    nextMutex, computeCount, computed, clean, opsStarted, ticks, audit>>

\* The message an operation broadcasts
Broadcast(cl) ==
  CASE cl.op = "invalidate" -> MsgRemove(cl.key)
    [] cl.op = "inv_pattern" -> MsgRemoveBulk(cl.keys)
    [] OTHER -> UpdateOf(cl.key, cl.val, Some(cl.ttl))

\* Redis PUBLISH: every subscribed connection is handed the payload
Delivered(j) == [i \in Instances |-> Append(inbox[i], j)]

\* payloads the subscriber of instance i has taken off its connection
Handled(i) == sub_stats[i].messages_received + sub_stats[i].processing_errors

\* publisher.lock().await completes
LockPublisher(c) ==
  /\ call[c].pc = "pub_lock"
  /\ pub_lock = 0
  /\ pub_lock' = c
  /\ Go(c, [call[c] EXCEPT !.pc = "publish"])
  /\ UNCHANGED <<invalidation, inbox, messages_sent, sub_stats, peerL1, applied, subVars>>
  /\ UNCHANGED <<mgr, req, mode, tiers, store, tierHits, stats, in_flight, holder,
                 nextMutex, computeCount, computed, clean, opsStarted, ticks, audit>>

\* invalidation_stats.messages_sent.fetch_add(1) follows `publish(&msg).await?`
CountedBeforePublish(ok) == messages_sent + 1
SentCount(ok) == IF ok THEN messages_sent + 1 ELSE messages_sent

\* pub_lock.publish(&msg).await?, messages_sent += 1, Ok(()); the guard of
\* the publisher is dropped at the return
Publish(c, ok) ==
  LET cl == [call[c] EXCEPT !.rx = Handled("A"), !.at = ticks]
  IN /\ cl.pc = "publish"
     /\ pub_lock' = 0
     /\ IF ok
          THEN /\ inbox' = Delivered(ToJson(Broadcast(cl)))
               /\ Finish(c, cl, SetOk)
          ELSE /\ UNCHANGED inbox
               /\ Finish(c, cl, Failed)
     /\ messages_sent' = SentCount(ok)
     /\ UNCHANGED <<invalidation, sub_stats, peerL1, applied, subVars>>
     /\ UNCHANGED <<mgr, req, mode, tiers, store, tierHits, stats, in_flight, holder,
                    nextMutex, computeCount, computed, clean, opsStarted, ticks, audit>>

(* ------------------------------ the subscriber ------------------------- *)
\* The L1 cache of an instance
L1Of(i) == IF i = "A" THEN store[1] ELSE peerL1

\* The tiers of its instance the handler operates on: l1 for Remove, Update
\* and RemoveBulk, none for RemovePattern (the clone of l2_cache_concrete is
\* never used)
EveryTier(m) == {1, 2}
HandlerTiers(m) == IF m.type = "RemovePattern" THEN {} ELSE {1}

\* Remove { key }: l1.remove(&key)
ToggleEntry(l, k) ==
  [l EXCEPT ![k] = IF IsSome(@) THEN None ELSE Some(Entry("", None, 0, "bus"))]
ApplyRemove(l, k) == [l EXCEPT ![k] = None]

\* Update { key, value, ttl_secs }: l1.set_with_ttl(&key, value, ttl) with
\* ttl = ttl_secs.map(Duration::from_secs).unwrap_or(300 s)
AlwaysDefaultTtl(t) == 300
MessageTtl(t) == IF IsSome(t) THEN Unwrap(t) ELSE 300
ApplyUpdate(l, k, v, t) ==
  [l EXCEPT ![k] = Some(Entry(v, Some(MessageTtl(t)), MessageTtl(t), "bus"))]

\* The handler of start_invalidation_subscriber on one cache l1 whose remove
\* and set_with_ttl return Err for the keys in F.  The Remove and Update
\* arms end in `?`; the RemoveBulk arm logs a failed remove and goes on to
\* the next key.
HandleWith(l, m, F) ==
  CASE m.type = "Remove" -> IF m.key \in F THEN l ELSE ApplyRemove(l, m.key)
    [] m.type = "Update" ->
         IF m.key \in F THEN l ELSE ApplyUpdate(l, m.key, m.value, m.ttl_secs)
    [] m.type = "RemovePattern" -> l
    [] m.type = "RemoveBulk" -> WithoutKeys(l, Range(m.keys) \ F)

\* what the handler returns: Err only out of the `?` of the Remove and the
\* Update arm; every other path ends in Ok(())
HandlerErr(m, F) == m.type \in {"Remove", "Update"} /\ m.key \in F

\* The handler on the L1 cache of new_with_invalidation, whose remove and
\* set_with_ttl always return Ok
Handle(l, m) == HandleWith(l, m, {})

\* a subscriber that counts every message as a Remove
CountedAsRemove(m) == "removes_received"

\* the per-variant counter of run_subscriber_loop
Counter(m) ==
  CASE m.type = "Remove" -> "removes_received"
    [] m.type = "Update" -> "updates_received"
    [] m.type = "RemovePattern" -> "patterns_received"
    [] m.type = "RemoveBulk" -> "bulk_removes_received"

\* a subscriber whose handling of a payload publishes it again
Echoed(box, i) ==
  [o \in Instances |-> IF o = i THEN Tail(box[o]) ELSE Append(box[o], Head(box[i]))]

\* stream.next() hands the subscriber of instance i the next payload of its
\* connection; neither the loop nor the handler publishes anything
Consumed(box, i) == [box EXCEPT ![i] = Tail(@)]

\* run_subscriber_loop takes the next payload off the connection of instance
\* i: a payload that does not deserialize counts as a processing error and
\* is skipped; any other is counted and handed to the handler, which runs to
\* its end before the next payload is taken; a handler that returned Err
\* counts as a processing error.  F: the keys for which the calls of the
\* handler on l1 return Err.
TakenWith(i, F) ==
  LET j == Head(inbox[i])
      d == FromJson(j)
      m == Unwrap(d)
      mine == L1Of(i)
      new == IF 1 \in HandlerTiers(m) THEN HandleWith(mine, m, F) ELSE mine
      errs == IF HandlerErr(m, F) THEN 1 ELSE 0
  IN /\ mgr = "ok"
     /\ invalidation
     /\ inbox[i] # <<>>
     /\ inbox' = Consumed(inbox, i)
     /\ IF d = None
          THEN /\ sub_stats' = [sub_stats EXCEPT ![i].processing_errors = @ + 1]
               /\ UNCHANGED <<store, peerL1, applied>>
          ELSE /\ sub_stats' = [sub_stats EXCEPT ![i].messages_received = @ + 1,
                                                 ![i][Counter(m)] = @ + 1,
                                                 ![i].processing_errors = @ + errs]
               /\ store' = [t \in 1..MaxTiers |->
                              IF t = 1 THEN (IF i = "A" THEN new ELSE store[1])
                              ELSE IF t \in HandlerTiers(m) THEN HandleWith(store[t], m, F)
                              ELSE store[t]]
               /\ peerL1' = IF i = "B" THEN new ELSE peerL1
               /\ applied' = [applied EXCEPT ![i] =
                                [msg |-> d, before |-> mine, after |-> new,
                                 again |-> applied[i].msg = d, failed |-> F,
                                 counted |-> errs]]
     /\ UNCHANGED <<invalidation, messages_sent, pub_lock>>
     /\ UNCHANGED <<mgr, req, mode, tiers, tierHits, stats, in_flight, holder, nextMutex,
                    call, computeCount, computed, prev, clean, opsStarted, ticks, audit>>

\* ... with the L1 cache of new_with_invalidation
Taken(i) == TakenWith(i, {})

\* The subscriber of instance i, connected and subscribed, takes and handles
\* the next payload
Receive(i) == Taken(i) /\ UNCHANGED subVars

\* What other publishers on the channel may send: every variant of the
\* message, an Update without ttl_secs, and a payload that is no message
ForeignPayloads ==
  {ToJson(MsgRemove("k1")), ToJson(MsgUpdate("k1", "v2", None)),
   ToJson(MsgUpdate("k1", "v2", Some(1))), ToJson(MsgRemovePattern("k*")),
   ToJson(MsgRemoveBulk(<<"k1", "k2">>)), [type |-> "Flush"]}

\* Another publisher on the channel publishes payload j
ForeignPublish(j) ==
  /\ mgr = "ok"
  /\ invalidation
  /\ opsStarted < MaxBusOps
  /\ opsStarted' = opsStarted + 1
  /\ inbox' = Delivered(j)
  /\ UNCHANGED <<invalidation, messages_sent, sub_stats, peerL1, applied, subVars,
                 pub_lock>>
  /\ UNCHANGED <<mgr, req, mode, tiers, store, tierHits, stats, in_flight, holder,
                 nextMutex, call, computeCount, computed, prev, clean, ticks, audit>>

\* The manager's field invalidation_stats: an AtomicInvalidationStats made by
\* new_with_invalidation, a different object from the `stats` that
\* InvalidationSubscriber::new makes and run_subscriber_loop counts in.  The
\* manager writes its messages_sent and nothing writes the other counters,
\* which stay at their Default.
invalidation_stats ==
  [messages_sent |-> messages_sent, messages_received |-> 0, removes_received |-> 0,
   updates_received |-> 0, patterns_received |-> 0, bulk_removes_received |-> 0,
   processing_errors |-> 0]

\* get_invalidation_stats: Some(self.invalidation_stats.snapshot()) when the
\* manager has a subscriber
get_invalidation_stats == IF invalidation THEN Some(invalidation_stats) ELSE None

(* ------------------------------ the subscriber task -------------------- *)
\* shutdown(): `let _ = self.shutdown_tx.send(())` on a broadcast channel of
\* capacity 1.  A value sent while the receiver has yet to take the one
\* before it overwrites that one: the receiver has lagged, its next receive
\* returns Err(Lagged) and the one after that the value retained.
Sent(sig) == IF sig = "empty" THEN "value" ELSE "lagged"

Shutdown ==
  /\ task.pc # "none"
  /\ shutdowns < MaxShutdowns
  /\ shutdowns' = shutdowns + 1
  /\ signal' = Sent(signal)
  /\ UNCHANGED <<task, invalidation, inbox, messages_sent, sub_stats, peerL1, applied,
                 pub_lock>>
  /\ UNCHANGED <<mgr, req, mode, tiers, store, tierHits, stats, in_flight, holder,
                 nextMutex, call, computeCount, computed, prev, clean, opsStarted,
                 ticks, audit>>

\* the frame of a step of the task that touches no cache and no connection
TaskFrame ==
  /\ UNCHANGED <<invalidation, inbox, messages_sent, peerL1, applied, shutdowns,
                 pub_lock>>
  /\ UNCHANGED <<mgr, req, mode, tiers, store, tierHits, stats, in_flight, holder,
                 nextMutex, call, computeCount, computed, prev, clean, opsStarted,
                 ticks, audit>>

\* run_subscriber_loop returned Err: processing_errors += 1
LoopFailed == [sub_stats EXCEPT !["A"].processing_errors = @ + 1]

\* shutdown_rx.try_recv().is_ok() at the top of the loop of start
SignalIgnored(sig) == FALSE
TryRecvOk(sig) == sig = "value"
ReadyUnsignalled(sig) == TRUE
AnyResultOk(sig) == sig # "empty"

\* the receiver after try_recv / recv returned: a value is consumed, a lag
\* is reported once and leaves the retained value to be received
Received(sig) == IF sig = "lagged" THEN "value" ELSE "empty"

\* ... then select! { sleep(5 s), shutdown_rx.recv() }: the sleep has just
\* begun, so a result that recv has ready ends the task at once; otherwise
\* the task is suspended in the select
Reconnecting ==
  /\ sub_stats' = LoopFailed
  /\ IF AnyResultOk(signal)
       THEN task' = [task EXCEPT !.pc = "exited"] /\ signal' = Received(signal)
       ELSE task' = [task EXCEPT !.pc = "sleeping"] /\ signal' = signal

\* The top of the loop of start: break when try_recv is Ok, else call
\* run_subscriber_loop, which suspends in client.get_async_pubsub().await
Top ==
  IF TryRecvOk(signal)
    THEN [task EXCEPT !.pc = "exited"]
    ELSE [task EXCEPT !.pc = "connecting", !.attempts = @ + 1, !.late = shutdowns > 0]

\* InvalidationSubscriber::start, called by start_invalidation_subscriber
\* when the manager is built: the task is spawned and runs to its first await
Start ==
  /\ mgr = "ok"
  /\ invalidation
  /\ task.pc = "none"
  /\ task' = Top
  /\ UNCHANGED <<signal, sub_stats>>
  /\ TaskFrame

\* client.get_async_pubsub().await returns
Connected(ok) ==
  /\ task.pc = "connecting"
  /\ ok \/ task.attempts <= MaxAttempts
  /\ IF ok
       THEN task' = [task EXCEPT !.pc = "subscribing"] /\ UNCHANGED <<sub_stats, signal>>
       ELSE Reconnecting
  /\ TaskFrame

\* pubsub.subscribe(channel).await returns
Subscribed(ok) ==
  /\ task.pc = "subscribing"
  /\ ok \/ task.attempts <= MaxAttempts
  /\ IF ok
       THEN task' = [task EXCEPT !.pc = "waiting"] /\ UNCHANGED <<sub_stats, signal>>
       ELSE Reconnecting
  /\ TaskFrame

\* select! of run_subscriber_loop, branch stream.next() = Some(msg): the
\* payload is decoded and counted and the handler is called
TakeMessage ==
  /\ task.pc = "waiting"
  /\ inbox["A"] # <<>>
  /\ task' = [task EXCEPT !.pc = "handling"]
  /\ UNCHANGED <<signal, sub_stats>>
  /\ TaskFrame

\* handler(msg).await returns (or the payload was skipped)
Handled_ ==
  /\ task.pc = "handling"
  /\ Taken("A")
  /\ task' = [task EXCEPT !.pc = "waiting"]
  /\ UNCHANGED <<signal, shutdowns>>

\* select! of run_subscriber_loop, branch stream.next() = None: the
\* connection was lost, the loop returns Err
StreamEnded ==
  /\ task.pc = "waiting"
  /\ task.attempts <= MaxAttempts
  /\ Reconnecting
  /\ TaskFrame

\* select! of run_subscriber_loop, branch `_ = shutdown_rx.recv()`: whatever
\* recv returned, the loop returns Ok and the task breaks
ShutdownSeen ==
  /\ task.pc \in {"waiting", "sleeping"}
  /\ AnyResultOk(signal)
  /\ task' = [task EXCEPT !.pc = "exited"]
  /\ signal' = Received(signal)
  /\ UNCHANGED sub_stats
  /\ TaskFrame

\* select! of start, branch sleep(5 s): the loop starts over
SleepOver ==
  /\ task.pc = "sleeping"
  /\ task' = Top
  /\ signal' = IF signal = "empty" THEN signal ELSE Received(signal)
  /\ UNCHANGED sub_stats
  /\ TaskFrame

(* ------------------------------ time ----------------------------------- *)
\* A backend entry one second later: gone once its TTL has run out
Aged(o) ==
  IF o = None \/ Unwrap(o).ttl = None THEN o
  ELSE IF Unwrap(Unwrap(o).ttl) <= 1 THEN None
  ELSE Some([Unwrap(o) EXCEPT !.ttl = Some(Unwrap(@) - 1)])

Tick ==
  /\ mgr = "ok"
  /\ ticks < MaxTicks
  /\ ticks' = ticks + 1
  /\ store' = [t \in 1..MaxTiers |-> [k \in Keys |-> Aged(store[t][k])]]
  /\ clean' = [k \in Keys |-> FALSE]
  /\ peerL1' = [k \in Keys |-> Aged(peerL1[k])]
  /\ UNCHANGED <<invalidation, inbox, messages_sent, sub_stats, applied, subVars,
                 pub_lock>>
  /\ UNCHANGED <<mgr, req, mode, tiers, tierHits, stats, in_flight, holder,
                 nextMutex, call, computeCount, computed, prev, opsStarted, audit>>

(* ------------------------------ specifications ------------------------- *)
InitRest ==
  /\ tierHits = ZeroHits
  /\ stats = ZeroStats
  /\ in_flight = [k \in Keys |-> None]
  /\ holder = [m \in MutexIds |-> 0]
  /\ nextMutex = 1
  /\ call = [c \in Callers |-> IdleCall]
  /\ computeCount = [k \in Keys |-> 0]
  /\ computed = [k \in Keys |-> {}]
  /\ prev = NoPrev
  /\ clean = [k \in Keys |-> TRUE]
  /\ opsStarted = 0
  /\ ticks = 0
  /\ inbox = [i \in Instances |-> <<>>]
  /\ messages_sent = 0
  /\ sub_stats = [i \in Instances |-> NoSubStats]
  /\ peerL1 = [k \in Keys |-> None]
  /\ applied = [i \in Instances |-> NoApplied]
  /\ task = NoTask
  /\ signal = "empty"
  /\ shutdowns = 0
  /\ pub_lock = 0

InitCommon == store = EmptyStore /\ InitRest

\* Managers as new_with_backends and new_with_tiers leave them
TwoTiers == <<[level |-> 1, promo |-> FALSE, scale |-> 1],
              [level |-> 2, promo |-> TRUE, scale |-> 1]>>

Init ==
  /\ InitCommon
  /\ invalidation = FALSE
  /\ audit = FALSE
  /\ mgr = "ok"
  /\ \/ mode = "legacy" /\ tiers = <<>> /\ req = <<>>
     \/ mode = "multi" /\ tiers = TwoTiers /\ req = TwoTiers

\* Concurrent callers of one key
Next ==
  \E c \in 1..NCallers :
    \/ StartGet(c, "k1")
    \/ \E o \in {"goc", "goct"} : StartCompute(c, o, "k1", Custom(1))
    \/ FastPath(c)
    \/ Entry_(c)
    \/ Lock(c)
    \/ DoubleCheck(c)
    \/ Lower(c)
    \/ \E ok \in BOOLEAN : Promote(c, ok)
    \/ \E r \in {"err", "v1"}, ser \in BOOLEAN : ComputeDone(c, r, ser)
    \/ \E ok \in BOOLEAN : Store(c, ok)
    \/ Release(c)
    \/ Unlock(c)
    \/ Cancel(c)

Spec == Init /\ [][Next]_vars

\* The stampede: NStampede callers of get_or_compute_with on one absent key,
\* one call each, with a compute and tier writes that succeed
InitStampede ==
  /\ InitCommon
  /\ invalidation = FALSE
  /\ audit = FALSE
  /\ mgr = "ok"
  /\ \/ mode = "legacy" /\ tiers = <<>> /\ req = <<>>
     \/ mode = "multi" /\ tiers = TwoTiers /\ req = TwoTiers
     \/ mode = "multi" /\ tiers = <<TwoTiers[1]>> /\ req = tiers

NextStampede ==
  \E c \in 1..NStampede :
    \/ call[c].pc = "idle" /\ StartCompute(c, "goc", "k1", Custom(1))
    \/ FastPath(c)
    \/ Entry_(c)
    \/ Lock(c)
    \/ DoubleCheck(c)
    \/ Lower(c)
    \/ \E r \in {"v1", "v2"} : ComputeDone(c, r, TRUE)
    \/ Store(c, TRUE)
    \/ Release(c)
    \/ Unlock(c)

SpecStampede == InitStampede /\ [][NextStampede]_vars

\* The managers of the sequential specifications: the legacy manager, the
\* two-tier ladder, and three-tier ladders in which the lower tiers promote
\* or not and the coldest tier keeps its entries twice as long
ThreeTiers(p2, p3) == <<[level |-> 1, promo |-> FALSE, scale |-> 1],
                        [level |-> 2, promo |-> p2, scale |-> 1],
                        [level |-> 3, promo |-> p3, scale |-> 2]>>

LadderTiers == {TwoTiers} \cup {ThreeTiers(p2, p3) : p2, p3 \in BOOLEAN}

\* One caller, one call after the other (get and set_with_strategy), while
\* time passes
InitLadder ==
  /\ InitCommon
  /\ invalidation = FALSE
  /\ audit = TRUE
  /\ mgr = "ok"
  /\ \/ mode = "legacy" /\ tiers = <<>> /\ req = <<>>
     \/ mode = "multi" /\ tiers \in LadderTiers /\ req = tiers /\ TiersAccepted(tiers)

NextLadder ==
  \/ Tick
  \/ StartGet(1, "k1")
  \/ \E d \in 1..MaxCustomTTL : StartSet(1, "k1", "v1", Custom(d))
  \/ FastPath(1)
  \/ Entry_(1)
  \/ Lock(1)
  \/ DoubleCheck(1)
  \/ Lower(1)
  \/ \E ok \in BOOLEAN : Promote(1, ok)
  \/ \E ok \in BOOLEAN : Store(1, ok)
  \/ Release(1)
  \/ Unlock(1)

SpecLadder == InitLadder /\ [][NextLadder]_vars

\* set_with_strategy alone, on ladders of every length in which the tiers
\* further down keep their entries longer (as the presets of TierConfig do)
ScaledTiers(n) ==
  [i \in 1..n |-> [level |-> i, promo |-> i > 1,
                   scale |-> IF i <= MaxScale THEN i ELSE MaxScale]]

WriteTiers == {ScaledTiers(n) : n \in 1..MaxTiers}

InitWrite ==
  /\ InitCommon
  /\ invalidation = FALSE
  /\ audit = TRUE
  /\ mgr = "ok"
  /\ \/ mode = "legacy" /\ tiers = <<>> /\ req = <<>>
     \/ mode = "multi" /\ tiers \in WriteTiers /\ req = tiers /\ TiersAccepted(tiers)

NextWrite ==
  \/ Tick
  \/ opsStarted < MaxWrites
       /\ \E d \in 1..MaxCustomTTL : StartSet(1, "k1", "v1", Custom(d))
  \/ \E ok \in BOOLEAN : Store(1, ok)

SpecWrite == InitWrite /\ [][NextWrite]_vars

\* The constructors, on every tier list up to MaxTiers tiers
CtorConfigs == {t \in TierConfigs : t.scale = 1}

InitCtor ==
  /\ InitCommon
  /\ invalidation = FALSE
  /\ audit = FALSE
  /\ mgr = "none"
  /\ mode = "legacy"
  /\ tiers = <<>>
  /\ req \in SeqsUpTo(CtorConfigs, MaxTiers)

NextCtor == NewWithTiers \/ Build

SpecCtor == InitCtor /\ [][NextCtor]_vars

\* One caller, one call after the other, of every read and write operation,
\* with backends that may fail and no time passing
InitCalls ==
  /\ InitCommon
  /\ invalidation = FALSE
  /\ audit = TRUE
  /\ mgr = "ok"
  /\ \/ mode = "legacy" /\ tiers = <<>> /\ req = <<>>
     \/ mode = "multi" /\ tiers \in {TwoTiers, ThreeTiers(TRUE, TRUE)} /\ req = tiers

NextCalls ==
  \/ StartGet(1, "k1")
  \/ \E o \in {"goc", "goct"} : StartCompute(1, o, "k1", Custom(1))
  \/ \E v \in {"v1", "bad"} : StartSet(1, "k1", v, Custom(2))
  \/ FastPath(1)
  \/ Entry_(1)
  \/ Lock(1)
  \/ DoubleCheck(1)
  \/ Lower(1)
  \/ \E ok \in BOOLEAN : Promote(1, ok)
  \/ \E r \in {"err", "v2"}, ser \in BOOLEAN : ComputeDone(1, r, ser)
  \/ \E ok \in BOOLEAN : Store(1, ok)
  \/ Release(1)
  \/ Unlock(1)

SpecCalls == InitCalls /\ [][NextCalls]_vars

\* The invalidating operations, one call after the other, while the
\* subscribers of both instances take what was published and other
\* publishers use the channel.  new_with_invalidation builds the legacy
\* manager with publisher and subscriber; new_with_backends and
\* new_with_tiers build managers without them.
InitBus ==
  /\ InitCommon
  /\ audit = TRUE
  /\ mgr = "ok"
  /\ \/ invalidation = TRUE /\ mode = "legacy" /\ tiers = <<>> /\ req = <<>>
     \/ invalidation = FALSE /\ mode = "legacy" /\ tiers = <<>> /\ req = <<>>
     \/ invalidation = FALSE /\ mode = "multi" /\ tiers = ThreeTiers(TRUE, TRUE)
          /\ req = tiers

NextBus ==
  \/ /\ opsStarted < MaxBusOps
     /\ \/ StartInvalidate(1, "k1")
        \/ \E ttl \in {None, Some(1)} : StartUpdate(1, "k1", "v1", ttl)
        \/ \E k \in Keys : StartSetBroadcast(1, k, "v1", Custom(1))
        \/ \E p \in Patterns : StartInvalidatePattern(1, p)
  \/ \E ok \in BOOLEAN : InvalidateStep(1, ok)
  \/ \E ok \in BOOLEAN : UpdateStep(1, ok)
  \/ \E ok \in BOOLEAN : Store(1, ok)
  \/ \E ok \in BOOLEAN : Scan(1, ok)
  \/ \E ok \in BOOLEAN : RemoveBulk(1, ok)
  \/ LockPublisher(1)
  \/ \E ok \in BOOLEAN : Publish(1, ok)
  \/ \E i \in Instances : Receive(i)
  \/ \E j \in ForeignPayloads : ForeignPublish(j)

SpecBus == InitBus /\ [][NextBus]_vars

\* A manager with the bus whose caller makes one update_cache, then one
\* set_with_strategy and then one get of the same key, while the subscribers
\* (its own and a peer's) take the messages whenever they arrive.  The top
\* tier holds the key from the first write on, so the get ends in its fast
\* path.
InitSelf ==
  /\ InitCommon
  /\ audit = TRUE
  /\ mgr = "ok"
  /\ invalidation = TRUE /\ mode = "legacy" /\ tiers = <<>> /\ req = <<>>

NextSelf ==
  \/ call[1].pc = "idle" /\ \E ttl \in {None, Some(1)} : StartUpdate(1, "k1", "v1", ttl)
  \/ \E ok \in BOOLEAN : UpdateStep(1, ok)
  \/ LockPublisher(1)
  \/ \E ok \in BOOLEAN : Publish(1, ok)
  \/ call[1].op = "update" /\ StartSet(1, "k1", "v2", Custom(1))
  \/ \E ok \in BOOLEAN : Store(1, ok)
  \/ call[1].op = "set" /\ StartGet(1, "k1")
  \/ FastPath(1)
  \/ \E i \in Instances : Receive(i)

SpecSelf == InitSelf /\ [][NextSelf]_vars

\* Two callers of the same manager, each making one update_cache of the same
\* key with its own value, running concurrently: their steps interleave at
\* every await, publisher.lock().await included
InitOrder == InitSelf

NextOrder ==
  \/ call[1].pc = "idle" /\ StartUpdate(1, "k1", "v1", None)
  \/ call[2].pc = "idle" /\ StartUpdate(2, "k1", "v2", None)
  \/ \E c \in 1..2 :
       \/ \E ok \in BOOLEAN : UpdateStep(c, ok)
       \/ LockPublisher(c)
       \/ \E ok \in BOOLEAN : Publish(c, ok)
  \/ \E i \in Instances : Receive(i)

SpecOrder == InitOrder /\ [][NextOrder]_vars

\* update_cache and the subscribers.  The subscriber is a
\* spawned task that loops on the message stream of its connection: it is
\* scheduled again and again, so a payload that waits is taken eventually.
InitUpdate ==
  /\ InitCommon
  /\ audit = TRUE
  /\ mgr = "ok"
  /\ invalidation = TRUE /\ mode = "legacy" /\ tiers = <<>> /\ req = <<>>

NextUpdate ==
  \/ /\ opsStarted < MaxBusOps
     /\ \E ttl \in {None, Some(1)} : StartUpdate(1, "k1", "v1", ttl)
  \/ \E ok \in BOOLEAN : UpdateStep(1, ok)
  \/ LockPublisher(1)
  \/ \E ok \in BOOLEAN : Publish(1, ok)
  \/ \E i \in Instances : Receive(i)
  \/ ForeignPublish(ToJson(MsgUpdate("k1", "v2", None)))

SpecUpdate ==
  InitUpdate /\ [][NextUpdate]_vars /\ \A i \in Instances : WF_vars(Receive(i))

\* Concurrent callers of one key, one get or get_or_compute_with each, with
\* tier writes and computes that may fail
NextHit ==
  \E c \in 1..NCallers :
    \/ call[c].pc = "idle" /\ StartGet(c, "k1")
    \/ call[c].pc = "idle" /\ StartCompute(c, "goc", "k1", Custom(1))
    \/ FastPath(c)
    \/ Entry_(c)
    \/ Lock(c)
    \/ DoubleCheck(c)
    \/ Lower(c)
    \/ \E ok \in BOOLEAN : Promote(c, ok)
    \/ \E r \in {"err", "v1"} : ComputeDone(c, r, TRUE)
    \/ \E ok \in BOOLEAN : Store(c, ok)
    \/ Release(c)
    \/ Unlock(c)

SpecHit == Init /\ [][NextHit]_vars

\* The background task of the subscriber of a manager built by
\* new_with_invalidation, from its start, with connections that fail or are
\* lost, messages that arrive, and calls of shutdown().  The task is polled
\* again whenever one of the futures it waits on is ready.
InitSub ==
  /\ InitCommon
  /\ audit = TRUE
  /\ mgr = "ok"
  /\ invalidation = TRUE /\ mode = "legacy" /\ tiers = <<>> /\ req = <<>>

NextSub ==
  \/ Start
  \/ Shutdown
  \/ \E ok \in BOOLEAN : Connected(ok)
  \/ \E ok \in BOOLEAN : Subscribed(ok)
  \/ TakeMessage
  \/ Handled_
  \/ StreamEnded
  \/ ShutdownSeen
  \/ SleepOver
  \/ \E j \in {ToJson(MsgRemove("k1")), [type |-> "Flush"]} : ForeignPublish(j)

\* the steps the task takes once what it waits on is ready: the connection
\* attempt and the handler return, and the select takes the shutdown branch
TaskStep ==
  \/ \E ok \in BOOLEAN : Connected(ok)
  \/ \E ok \in BOOLEAN : Subscribed(ok)
  \/ Handled_
  \/ ShutdownSeen

SpecSub == InitSub /\ [][NextSub]_vars /\ WF_vars(TaskStep)

\* ... and the timer of the 5 s sleep fires and a message that has arrived
\* makes stream.next() ready
SpecReconnect ==
  InitSub /\ [][NextSub]_vars /\ WF_vars(TaskStep \/ SleepOver \/ TakeMessage)

\* Concurrent callers of one key, one get, get_or_compute_with, invalidate
\* or update_cache each, that run to completion: every backend call, compute
\* and publish returns (with a result or an error).
InitLive ==
  /\ InitCommon
  /\ audit = FALSE
  /\ mgr = "ok"
  /\ \/ invalidation = TRUE /\ mode = "legacy" /\ tiers = <<>> /\ req = <<>>
     \/ invalidation = FALSE /\ mode = "multi" /\ tiers = TwoTiers /\ req = TwoTiers

\* the steps of a call of caller c that wait on no lock
Running(c) ==
  \/ FastPath(c)
  \/ Entry_(c)
  \/ DoubleCheck(c)
  \/ Lower(c)
  \/ \E ok \in BOOLEAN : Promote(c, ok)
  \/ \E r \in {"err", "v1"} : ComputeDone(c, r, TRUE)
  \/ \E ok \in BOOLEAN : Store(c, ok)
  \/ Release(c)
  \/ Unlock(c)
  \/ \E ok \in BOOLEAN : InvalidateStep(c, ok)
  \/ \E ok \in BOOLEAN : UpdateStep(c, ok)
  \/ \E ok \in BOOLEAN : Publish(c, ok)

NextLive ==
  \E c \in 1..NCallers :
    \/ call[c].pc = "idle" /\ StartGet(c, "k1")
    \/ call[c].pc = "idle" /\ StartCompute(c, "goc", "k1", Custom(1))
    \/ call[c].pc = "idle" /\ StartInvalidate(c, "k1")
    \/ call[c].pc = "idle" /\ StartUpdate(c, "k1", "v1", None)
    \/ Running(c)
    \/ Lock(c)
    \/ LockPublisher(c)

\* The runtime polls a task whose future is ready, so while some call can
\* take a step some call does take one.  (Nothing more is assumed: neither
\* that each single caller is scheduled, nor the queue order of the mutex.)
SpecLive == InitLive /\ [][NextLive]_vars /\ WF_vars(NextLive)

\* The same call made twice, untyped and typed: get_or_compute_with on "k1",
\* then get_or_compute_typed on "k2", on a manager whose tiers in S hold the
\* same JSON value, one that is a T, under both keys (the other tiers lost
\* their entries or were never written).  compute_fn returns a T that
\* serializes.
RECURSIVE Seeded(_, _)
Seeded(st, S) ==
  IF S = {} THEN st
  ELSE LET t == CHOOSE x \in S : TRUE
           w1 == IF mode = "multi"
                   THEN TierWrite(st, t, "k1", "v1", ToDuration(Custom(2)), "set")
                   ELSE RawWrite(st, t, "k1", "v1", ToDuration(Custom(2)), "set")
           w2 == IF mode = "multi"
                   THEN TierWrite(w1, t, "k2", "v1", ToDuration(Custom(2)), "set")
                   ELSE RawWrite(w1, t, "k2", "v1", ToDuration(Custom(2)), "set")
       IN Seeded(w2, S \ {t})

InitTwin ==
  /\ InitRest
  /\ invalidation = FALSE
  /\ audit = TRUE
  /\ mgr = "ok"
  /\ \/ mode = "legacy" /\ tiers = <<>> /\ req = <<>>
     \/ mode = "multi" /\ tiers \in {TwoTiers, ThreeTiers(TRUE, TRUE)} /\ req = tiers
  /\ \E S \in SUBSET (1..NTiers) : store = Seeded(EmptyStore, S)

NextTwin ==
  \/ call[1].pc = "idle" /\ StartCompute(1, "goc", "k1", Custom(1))
  \/ /\ call[1].pc = "done" /\ call[2].pc = "idle"
     /\ StartCompute(2, "goct", "k2", Custom(1))
  \/ \E c \in 1..2 :
       \/ FastPath(c)
       \/ Entry_(c)
       \/ Lock(c)
       \/ DoubleCheck(c)
       \/ Lower(c)
       \/ \E ok \in BOOLEAN : Promote(c, ok)
       \/ \E r \in {"err", "v2"} : ComputeDone(c, r, TRUE)
       \/ \E ok \in BOOLEAN : Store(c, ok)
       \/ Release(c)
       \/ Unlock(c)

SpecTwin == InitTwin /\ [][NextTwin]_vars

\* One set_with_strategy with a Custom TTL by caller 1, then gets of the key
\* and nothing else: those of caller 2, between which time passes, and
\* after them one of caller 3
InitExpiry == InitLadder

NextExpiry ==
  \/ \E d \in 1..MaxCustomTTL :
       call[1].pc = "idle" /\ StartSet(1, "k1", "v1", Custom(d))
  \/ \E ok \in BOOLEAN : Store(1, ok)
  \/ /\ call[1].pc = "done" /\ call[2].pc \in {"idle", "done"} /\ call[3].pc = "idle"
     /\ Tick
  \/ call[1].pc = "done" /\ call[3].pc = "idle" /\ StartGet(2, "k1")
  \/ call[2].pc = "done" /\ call[3].pc = "idle" /\ StartGet(3, "k1")
  \/ \E c \in 2..3 :
       \/ FastPath(c)
       \/ Entry_(c)
       \/ Lock(c)
       \/ DoubleCheck(c)
       \/ Lower(c)
       \/ LowerNoTtl(c)
       \/ \E ok \in BOOLEAN : Promote(c, ok)
       \/ Release(c)
       \/ Unlock(c)

SpecExpiry == InitExpiry /\ [][NextExpiry]_vars

\* The same calls on a three-tier ladder whose lower tiers keep their
\* entries longer (ttl_scale 1, 2, 2), every get_with_ttl reporting the
\* remaining TTL
InitRescale ==
  /\ InitCommon
  /\ invalidation = FALSE
  /\ audit = TRUE
  /\ mgr = "ok"
  /\ mode = "multi" /\ tiers = ScaledTiers(3) /\ req = tiers /\ TiersAccepted(tiers)

NextRescale ==
  \/ \E d \in 1..MaxCustomTTL :
       call[1].pc = "idle" /\ StartSet(1, "k1", "v1", Custom(d))
  \/ \E ok \in BOOLEAN : Store(1, ok)
  \/ /\ call[1].pc = "done" /\ call[2].pc \in {"idle", "done"} /\ call[3].pc = "idle"
     /\ Tick
  \/ call[1].pc = "done" /\ call[3].pc = "idle" /\ StartGet(2, "k1")
  \/ call[2].pc = "done" /\ call[3].pc = "idle" /\ StartGet(3, "k1")
  \/ \E c \in 2..3 :
       \/ FastPath(c)
       \/ Entry_(c)
       \/ Lock(c)
       \/ DoubleCheck(c)
       \/ Lower(c)
       \/ \E ok \in BOOLEAN : Promote(c, ok)
       \/ Release(c)
       \/ Unlock(c)

SpecRescale == InitRescale /\ [][NextRescale]_vars

\* Concurrent get_or_compute_with callers of a key that the top tier does
\* not hold and some lower tiers do; nothing expires.  (A caller that got as
\* far as compute_fn would stay there: C25 says none does.)
InitLower ==
  /\ InitRest
  /\ invalidation = FALSE
  /\ audit = TRUE
  /\ mgr = "ok"
  /\ \/ mode = "legacy" /\ tiers = <<>> /\ req = <<>>
     \/ mode = "multi" /\ tiers \in LadderTiers /\ req = tiers
  /\ \E S \in SUBSET (2..NTiers) : S # {} /\ store = Seeded(EmptyStore, S)

NextLower ==
  \E c \in 1..NCallers :
    \/ call[c].pc = "idle" /\ StartCompute(c, "goc", "k1", Custom(1))
    \/ FastPath(c)
    \/ Entry_(c)
    \/ Lock(c)
    \/ DoubleCheck(c)
    \/ Lower(c)
    \/ LowerNoTtl(c)
    \/ \E ok \in BOOLEAN : Promote(c, ok)
    \/ Release(c)
    \/ Unlock(c)

SpecLower == InitLower /\ [][NextLower]_vars

\* One get and one invalidate of a key held by lower tiers, by two callers
\* that run concurrently: their steps interleave at every await
InitRace == InitLower

NextRace ==
  \/ call[1].pc = "idle" /\ StartGet(1, "k1")
  \/ FastPath(1)
  \/ Entry_(1)
  \/ Lock(1)
  \/ DoubleCheck(1)
  \/ Lower(1)
  \/ \E ok \in BOOLEAN : Promote(1, ok)
  \/ Release(1)
  \/ Unlock(1)
  \/ call[2].pc = "idle" /\ StartInvalidate(2, "k1")
  \/ \E ok \in BOOLEAN : InvalidateStep(2, ok)

SpecRace == InitRace /\ [][NextRace]_vars

\* The subscribers of a manager with the bus, their handler run on an l1
\* that is any CacheBackend (the type the handler holds, Arc<dyn
\* CacheBackend>): each remove and set_with_ttl it makes may return Err.
\* The top tier starts with both keys cached.
InitBulk ==
  /\ InitRest
  /\ audit = TRUE
  /\ mgr = "ok"
  /\ invalidation = TRUE /\ mode = "legacy" /\ tiers = <<>> /\ req = <<>>
  /\ store = Seeded(EmptyStore, {1, 2})

NextBulk ==
  \/ \E j \in ForeignPayloads : ForeignPublish(j)
  \/ \E i \in Instances, F \in SUBSET Keys : TakenWith(i, F) /\ UNCHANGED subVars

SpecBulk == InitBulk /\ [][NextBulk]_vars

(* ------------------------------ properties ----------------------------- *)
AtRest(c) == call[c].pc \in {"idle", "done"}

\* the callers that descend the lower tiers, promote, compute or write the
\* computed value for key k
Descending(k) ==
  {c \in Callers : /\ call[c].key = k
                   /\ IsRead(call[c].op)
                   /\ call[c].pc \in {"lower", "promote", "compute", "store"}}

\* C1: in any interleaving of get and get_or_compute calls, two callers never
\* descend the lower tiers or run compute for the same key at the same time.
C1_OneMissPathPerKey == \A k \in Keys : Cardinality(Descending(k)) <= 1

\* C2: NStampede concurrent get_or_compute_with calls on one key absent from
\* every tier, with a compute and tier writes that succeed and callers that
\* run to completion: compute is invoked at most once, and a caller that has
\* returned returned the one computed value.
C2_ComputeOnce ==
  /\ computeCount["k1"] <= 1
  /\ \A c \in 1..NStampede :
       call[c].pc = "done" =>
         /\ computeCount["k1"] = 1
         /\ call[c].ret.tag = "some"
         /\ computed["k1"] = {call[c].ret.val}

\* all callers of the stampede have returned, one of them through the lock
\* of a second mutex
C2_Witness ==
  /\ \A c \in 1..NStampede : call[c].pc = "done"
  /\ computeCount["k1"] = 1
  /\ nextMutex > 2

\* C3: once every caller that missed the top tier for key k has returned (by
\* success, error or cancellation), in_flight_requests has no entry for k.
C3_NoEntryAtRest ==
  \A k \in Keys : (\A c \in Callers : call[c].key = k => AtRest(c)) => in_flight[k] = None

\* C4: while a caller holds or waits on the mutex it took from the map for
\* key k (and has not itself run the cleanup), the map's entry for k is that
\* same mutex.
C4_EntryIsLiveMutex ==
  \A c \in Callers :
    call[c].pc \in {"lock", "dcheck", "lower", "promote", "compute", "store", "release"}
      => in_flight[call[c].key] = Some(call[c].mtx)

\* C5: after any sequence of completed calls,
\* total_requests = l1_hits + l2_hits + misses.
C5_StatsAdditive ==
  (\A c \in Callers : AtRest(c)) =>
    stats.total_requests = stats.l1_hits + stats.l2_hits + stats.misses

\* the call of the one caller of the sequential specifications
Last == call[1]
GetDone == Last.pc = "done" /\ Last.op = "get" /\ Last.ret.tag # "cancelled"
HeldValue(t, k) == IF store[t][k] = None THEN "" ELSE Unwrap(store[t][k]).val

\* C6: a multi-tier get that hit at tier i > 1 has, when that tier promotes,
\* attempted a write on every tier above it, raised promotions by the number
\* of tiers written, and left the value in each tier written; when the tier
\* does not promote it has written nothing.  After a promotion that wrote
\* every upper tier, the next get of the key hits the first tier and
\* promotes nothing.
C6_PromotionFillsUpperTiers ==
  (GetDone /\ mode = "multi") =>
    /\ Last.hit > 1 =>
         /\ Last.ret.tag = "some"
         /\ stats.promotions = Last.p0 + Cardinality(Last.succ)
         /\ tiers[Last.hit].promo => Last.att = 1..(Last.hit - 1)
         /\ ~tiers[Last.hit].promo => Last.att = {}
         /\ ticks = Last.at =>
              \A j \in 1..(Last.hit - 1) :
                HeldValue(j, Last.key) = IF j \in Last.succ THEN Last.ret.val ELSE ""
    /\ (Last.pre.kind = "promoted" /\ Last.pre.key = Last.key /\ ticks < Last.pre.exp) =>
         /\ Last.ret = Found(Last.pre.val)
         /\ stats.l1_hits = Last.h0 + 1
         /\ stats.promotions = Last.p0

\* a hit at the third tier was promoted to both tiers above it
C6_Witness ==
  /\ GetDone /\ mode = "multi"
  /\ Last.hit = 3 /\ tiers[3].promo /\ Last.succ = {1, 2}
  /\ stats.promotions = Last.p0 + 2

\* C7: a get issued after set_with_strategy wrote every tier, with no call
\* in between and before the TTL has run out, returns the value set, counts
\* one first-tier hit and promotes nothing.
C7_GetAfterSet ==
  (GetDone /\ Last.pre.kind = "set_all" /\ Last.pre.key = Last.key
     /\ ticks < Last.pre.exp) =>
    /\ Last.ret = Found(Last.pre.val)
    /\ stats.l1_hits = Last.h0 + 1
    /\ stats.promotions = Last.p0

\* a get that followed a set by a second and still found the value
C7_Witness ==
  /\ GetDone /\ Last.pre.kind = "set_all" /\ Last.pre.key = Last.key
  /\ ticks >= 1 /\ ticks < Last.pre.exp
  /\ Last.ret = Found("v1")

SetDone == Last.pc = "done" /\ Last.op = "set"

\* C8: set_with_strategy attempts the write on every tier, returns Ok if and
\* only if at least one write succeeded and an error when every write failed.
C8_SetTriesEveryTier ==
  SetDone =>
    /\ Last.att = 1..NTiers
    /\ Last.ret = SetOk <=> Last.succ # {}
    /\ Last.succ = {} => Last.ret = Failed

\* the first tier failed, a later tier was written, and the call returned Ok
C8_Witness ==
  /\ SetDone /\ NTiers >= 2
  /\ 1 \notin Last.succ /\ Last.succ # {} /\ Last.ret = SetOk

\* C9: an entry written by set_with_strategy with base TTL T into a tier of
\* scale s has a remaining TTL of T*s less the time since the write, which is
\* greater than 0 and at most T*s.
C9_TtlScaled ==
  mode = "multi" =>
    \A t \in 1..NTiers, k \in Keys :
      LET o == store[t][k]
          e == Unwrap(o)
      IN (IsSome(o) /\ e.origin = "set") =>
           /\ IsSome(e.ttl)
           /\ Unwrap(e.ttl) = e.base * tiers[t].scale - (ticks - e.at)
           /\ Unwrap(e.ttl) > 0
           /\ Unwrap(e.ttl) <= e.base * tiers[t].scale

\* a tier of scale 2 holds, a second after the write, an entry of base TTL 2
C9_Witness ==
  /\ mode = "multi"
  /\ \E t \in 1..NTiers :
       /\ tiers[t].scale = 2
       /\ IsSome(store[t]["k1"])
       /\ Unwrap(store[t]["k1"]).base = 2
       /\ Unwrap(store[t]["k1"]).ttl = Some(3)
       /\ Unwrap(store[t]["k1"]).at = ticks - 1

StrictlyAscending(ts) ==
  \A i, j \in 1..Len(ts) : i < j => ts[i].level < ts[j].level

\* C10: new_with_tiers returns an error exactly for the empty list and the
\* lists whose levels are not strictly ascending, and every multi-tier
\* manager constructed has a non-empty, strictly ascending tier list.
C10_RejectsUnordered ==
  /\ [][NewWithTiers =>
          (mgr' = "err" <=> (req = <<>> \/ ~StrictlyAscending(req)))]_vars
  /\ [](mgr = "ok" /\ mode = "multi" => tiers # <<>> /\ StrictlyAscending(tiers))

\* new_with_tiers refused three tiers of distinct levels given out of order
\* (the builder sorts such a list and constructs the manager)
C10_Witness ==
  /\ mgr = "err" /\ Len(req) = 3
  /\ req[2].level < req[1].level /\ req[1].level < req[3].level

InvalidateDone == Last.pc = "done" /\ Last.op = "invalidate"

\* C11: invalidate issues a remove to every tier, in legacy mode as in
\* multi-tier mode, and a failing remove neither keeps the remaining tiers
\* from being tried nor makes invalidate return an error (an error comes
\* from elsewhere, with every remove a success).
C11_InvalidateEveryTier ==
  InvalidateDone =>
    /\ Last.att = 1..NTiers
    /\ Last.ret = Failed => Last.succ = Last.att

PatternDone == Last.pc = "done" /\ Last.op = "inv_pattern"

\* C12: when invalidate_pattern(p) returns Ok, at that moment (before the
\* subscriber of the calling manager has handled anything further) no tier
\* of the manager, the top tier included, holds a key that matched p at scan
\* time.
C12_PatternLeavesNoMatch ==
  (PatternDone /\ Last.ret = SetOk /\ Handled("A") = Last.rx) =>
    \A k \in Range(Last.keys), t \in 1..NTiers : store[t][k] = None

BusOps == {"invalidate", "update", "set_bcast", "inv_pattern"}

\* the tier operations of the completed call succeeded
TiersSucceeded ==
  CASE Last.op \in {"invalidate", "update"} -> Last.succ = 1..NTiers
    [] Last.op = "set_bcast" -> Last.succ # {}
    [] Last.op = "inv_pattern" -> Last.succ = {2}
    [] OTHER -> FALSE

\* C13: a failure to publish never makes a cache operation fail: invalidate,
\* update_cache, set_with_broadcast and invalidate_pattern return Ok whenever
\* their tier operations succeeded.
C13_PublishFailureNotFatal ==
  (Last.pc = "done" /\ Last.op \in BusOps /\ TiersSucceeded) => Last.ret = SetOk

\* the message the subscriber of instance i is about to be handed
NextMessage(i) == IF inbox[i] = <<>> THEN None ELSE FromJson(Head(inbox[i]))

\* C14: a step of a subscriber changes no tier below the top one, whatever
\* the message (Remove, Update, RemovePattern, RemoveBulk or a payload that
\* is no message), and a received RemovePattern changes no tier at all.
C14_MessagesTouchTopTierOnly ==
  [][\A i \in Instances :
       Receive(i) =>
         /\ \A t \in 2..MaxTiers : store'[t] = store[t]
         /\ i = "A" => peerL1' = peerL1
         /\ i = "B" => store' = store
         /\ (IsSome(NextMessage(i)) /\ Unwrap(NextMessage(i)).type = "RemovePattern")
              => store' = store /\ peerL1' = peerL1]_vars

\* a subscriber has just removed from its top tier a key that Redis holds
C14_Witness ==
  \E i \in Instances :
    /\ IsSome(applied[i].msg)
    /\ Unwrap(applied[i].msg).type \in {"Remove", "RemoveBulk"}
    /\ IsSome(applied[i].before["k1"])
    /\ applied[i].after["k1"] = None
    /\ IsSome(store[2]["k1"])

\* payload j waits on the connection of instance i
InTransit(i, j) == \E n \in 1..Len(inbox[i]) : inbox[i][n] = j

\* the subscriber of B has just handled Update{k, v, t}: B's top tier holds
\* v for k, written with a TTL of t seconds, or of 300 when t is None
BHolds(k, v, t) ==
  /\ applied["B"].msg = Some(MsgUpdate(k, v, t))
  /\ IsSome(peerL1[k])
  /\ Unwrap(peerL1[k]).val = v
  /\ Unwrap(peerL1[k]).ttl = Some(IF IsSome(t) THEN Unwrap(t) ELSE 300)
  /\ Unwrap(peerL1[k]).at = ticks

\* the Update messages on the channel
UpdatesSent ==
  {MsgUpdate("k1", "v1", Some(1)), MsgUpdate("k1", "v1", Some(300)),
   MsgUpdate("k1", "v2", None)}

\* C15: with A and B subscribed to one channel and no connection loss, an
\* update_cache(k, v, ttl) of A that returns Ok has handed B the message
\* Update{k, v, ttl_secs}, and every Update message handed to B is eventually
\* applied: B's top tier then holds v for k, written with the message's
\* ttl_secs, or with 300 s when the message carries none.
C15_UpdateReachesPeer ==
  /\ [][(Last.pc = "publish" /\ Last.op = "update" /\ call'[1].ret = SetOk) =>
          /\ MsgUpdate(Last.key, Last.val, Some(Last.ttl)) \in UpdatesSent
          /\ inbox'["B"] = Append(inbox["B"],
                                  ToJson(MsgUpdate(Last.key, Last.val, Some(Last.ttl))))]_vars
  /\ \A m \in UpdatesSent :
       InTransit("B", ToJson(m)) ~> BHolds(m.key, m.value, m.ttl_secs)

\* B holds the value of an update_cache that A made with a TTL of one second
C15_Witness ==
  /\ messages_sent >= 1
  /\ Last.pc = "done" /\ Last.op = "update" /\ Last.ret = SetOk /\ Last.ttl = 1
  /\ BHolds("k1", "v1", Some(1))

\* the messages on the channel that a payload waiting for, or last handled
\* by, the subscriber of instance i decodes to
MessagesOf(i) ==
  {Unwrap(d) : d \in ({FromJson(inbox[i][n]) : n \in 1..Len(inbox[i])}
                       \cup {applied[i].msg}) \ {None}}

ValueOf(l, k) == IF IsSome(l[k]) THEN Unwrap(l[k]).val ELSE ""

\* C16: on the subscriber, the handler applied a second time to the same
\* Remove{k} leaves the top tier as the first application left it; applied a
\* second time to the same Update{k, v, t} it leaves the same keys and the
\* same values, the entry of k being written anew with the TTL of the
\* message.  Checked on every top-tier state and message that occur, and on
\* what the subscriber did when the same message arrived twice in a row.
C16_HandlerIdempotent ==
  \A i \in Instances :
    /\ \A m \in MessagesOf(i) :
         LET once == Handle(L1Of(i), m)
             twice == Handle(once, m)
         IN /\ m.type = "Remove" => twice = once /\ once[m.key] = None
            /\ m.type = "Update" =>
                 /\ \A k \in Keys : ValueOf(twice, k) = ValueOf(once, k)
                                      /\ IsSome(twice[k]) = IsSome(once[k])
                 /\ ValueOf(twice, m.key) = m.value
                 /\ Unwrap(twice[m.key]).ttl = Some(MessageTtl(m.ttl_secs))
    /\ (applied[i].again /\ Unwrap(applied[i].msg).type = "Remove") =>
         applied[i].after[Unwrap(applied[i].msg).key] = None
    /\ (applied[i].again /\ Unwrap(applied[i].msg).type = "Update") =>
         /\ ValueOf(applied[i].after, Unwrap(applied[i].msg).key)
              = Unwrap(applied[i].msg).value
         /\ \A k \in Keys \ {Unwrap(applied[i].msg).key} :
              applied[i].after[k] = applied[i].before[k]

\* a subscriber was handed the same Update twice in a row and still holds
\* its value
C16_Witness ==
  \E i \in Instances :
    /\ applied[i].again
    /\ Unwrap(applied[i].msg).type = "Update"
    /\ ValueOf(L1Of(i), "k1") = Unwrap(applied[i].msg).value

\* messages of every variant, Update with and without ttl_secs
Messages ==
  {MsgRemove(k) : k \in Keys}
    \cup {MsgUpdate(k, v, t) : k \in Keys, v \in {"v1", "v2"},
                               t \in {None} \cup {Some(d) : d \in 0..MaxCustomTTL}}
    \cup {MsgRemovePattern(p) : p \in Patterns}
    \cup {MsgRemoveBulk(q) : q \in SeqsUpTo(Keys, 2)}

ComputeFailed == Last.pc = "done" /\ Last.op = "goc" /\ Last.ret = Failed

\* C18: when compute returns an error inside get_or_compute_with, the caller
\* gets the error, the call has written no tier for the key (no tier holds
\* it), the coalescer entry of the key is released, and the next
\* get_or_compute_with for the key runs compute again.
C18_ComputeErrorPropagates ==
  /\ [][(Last.pc = "compute" /\ Last.op = "goc" /\ call'[1].pc = "release"
           /\ computed' = computed)
          => call'[1].ret = Failed /\ store' = store]_vars
  /\ [](ComputeFailed =>
          /\ Last.att = {}
          /\ computeCount[Last.key] = Last.c0 + 1
          /\ \A t \in 1..NTiers : store[t][Last.key] = None
          /\ in_flight[Last.key] = None
          /\ \A m \in MutexIds : holder[m] = 0)
  /\ []((Last.pc = "done" /\ Last.op = "goc" /\ Last.pre.kind = "compute_failed"
           /\ Last.pre.key = Last.key)
          => computeCount[Last.key] = Last.c0 + 1)

\* compute failed twice in a row for the same key: it ran for each call
C18_Witness ==
  /\ ComputeFailed
  /\ Last.pre.kind = "compute_failed" /\ Last.pre.key = Last.key
  /\ computeCount[Last.key] = 2

\* C19: a get or get_or_compute_with that finds the key in the top tier at
\* its first lookup ends at that step (it returns the value, or its future
\* was dropped) without inserting into in_flight_requests and without
\* taking or waiting on a mutex, even while another caller holds the mutex
\* of the key.
C19_TopTierHitBypassesCoalescer ==
  [][\A c \in 1..NCallers :
       (/\ call[c].pc = "fast"
        /\ call[c].op \in {"get", "goc"}
        /\ IsSome(store[1][call[c].key])
        /\ call'[c] # call[c])
         => /\ call'[c].pc = "done"
            /\ call'[c].ret \in {Found(Unwrap(store[1][call[c].key]).val), Cancelled}
            /\ call'[c].mtx = 0
            /\ in_flight' = in_flight
            /\ holder' = holder
            /\ nextMutex' = nextMutex]_vars

\* a caller has returned the value from the top tier while the only mutex
\* ever made for the key is held by another caller, which wrote the value
\* to the top tier and has yet to write the second tier
C19_Witness ==
  \E c, d \in 1..NCallers :
    /\ c # d
    /\ call[c].pc = "done" /\ call[c].op \in {"get", "goc"} /\ call[c].ret = Found("v1")
    /\ call[d].pc = "store" /\ call[d].idx = 2 /\ call[d].key = call[c].key
    /\ nextMutex = 2
    /\ in_flight[call[d].key] = Some(call[d].mtx)
    /\ holder[call[d].mtx] = d
    /\ stats.l1_hits = 1

\* C20: when a hit at tier i promotes into several upper tiers, the
\* promotion writes are issued top-down, smallest level first: every tier
\* written before the one about to be written lies above it.
C20_PromotionTopDown ==
  (Last.pc = "promote" /\ Last.op = "get" /\ mode = "multi") =>
    \A j \in Last.att : j < Last.idx

InCall(c) == call[c].pc \notin {"idle", "done"}

\* C22: provided every backend call and every compute terminates, no set of
\* concurrent get, get_or_compute_with, invalidate and update_cache callers
\* deadlocks: every caller that entered the coalescer acquires the mutex of
\* its key and returns.  (A caller makes one call, and a call that waits for
\* a mutex returns only after acquiring it: every call started returns if
\* and only if from some point on no caller is inside a call.)
C22_NoDeadlock ==
  /\ <>[](\A c \in 1..NCallers : ~InCall(c))
  /\ [][\A c \in 1..NCallers :
          (call[c].pc = "lock" /\ call'[c].pc # "lock")
            => (call'[c].pc = "dcheck" /\ holder'[call[c].mtx] = c)]_vars

\* one caller waits for the coalescer mutex of the key that another holds
\* while it runs compute
C22_Witness ==
  \E c, d \in 1..NCallers :
    /\ call[c].pc = "lock" /\ holder[call[c].mtx] = d
    /\ call[d].pc = "compute" /\ call[d].key = call[c].key

\* what a call added to the counters, from the counters before and after it
Diff(after, before) == [f \in DOMAIN after |-> after[f] - before[f]]

\* The two calls were given the same results by their environment: a tier
\* write both made had the same outcome, and compute_fn, if both invoked it,
\* returned the same
SameInputs ==
  /\ \A t \in call[1].att \cap call[2].att : t \in call[1].succ <=> t \in call[2].succ
  /\ (computeCount["k1"] > 0 /\ computeCount["k2"] > 0) => computed["k1"] = computed["k2"]

RECURSIVE LargestScale(_)
LargestScale(ts) ==
  IF ts = <<>> THEN 1
  ELSE LET rest == LargestScale(Tail(ts))
       IN IF Head(ts).scale > rest THEN Head(ts).scale ELSE rest

\* C24: after set_with_strategy(k, v, Custom(T)) returned Ok, with no later
\* write of k, a get(k) made before T has elapsed returns Some(v), and a
\* get(k) made once the stored TTL has elapsed in every tier (T times the
\* tier's ttl_scale; T in legacy mode) returns None.  (No time passes once
\* the get of caller 3 has started: it is made at time `ticks`.)
C24_ExpiresAfterTtl ==
  (call[1].pc = "done" /\ call[1].ret = SetOk /\ call[3].pc = "done") =>
    /\ ticks < call[1].ttl => call[3].ret = Found("v1")
    /\ ticks >= call[1].ttl * LargestScale(tiers) => call[3].ret = NotFound

HitTier == IF Last.hit = 0 THEN 1 ELSE Last.hit
OneHitAt(t) == [j \in 1..MaxTiers |-> IF j = t THEN 1 ELSE 0]

\* C26: a lookup stops at the first tier that holds the key.  While get
\* looks at a tier, the tiers above it do not hold the key (so it never reads
\* below a tier that holds it); a promotion writes above the hit tier only;
\* and a get that found the value returned the value of the tier it hit and
\* recorded one hit, for that tier alone (the tier's counter in multi-tier
\* mode, l1_hits or l2_hits in legacy mode).
C26_StopsAtFirstHit ==
  /\ (Last.op = "get" /\ Last.pc = "lower") =>
       \A j \in 1..(Last.idx - 1) : store[j][Last.key] = None
  /\ (Last.op = "get" /\ Last.pc = "promote") => Last.idx < Last.hit
  /\ (GetDone /\ Last.ret.tag = "some") =>
       /\ HeldValue(HitTier, Last.key) = Last.ret.val
       /\ mode = "multi" => Diff(tierHits, Last.n0) = OneHitAt(HitTier)
       /\ mode = "legacy" =>
            /\ Diff(tierHits, Last.n0) = ZeroHits
            /\ stats.l1_hits - Last.s0.l1_hits = (IF HitTier = 1 THEN 1 ELSE 0)
            /\ stats.l2_hits - Last.s0.l2_hits = (IF HitTier = 2 THEN 1 ELSE 0)

\* a get found the value in the second of three tiers, which differs from
\* the value the third tier holds
C26_Witness ==
  /\ GetDone /\ Last.ret.tag = "some" /\ Last.hit = 2 /\ NTiers = 3
  /\ HeldValue(3, Last.key) \notin {"", Last.ret.val}

\* does a hit at the tier the get stopped at promote?  (legacy get always
\* promotes an L2 hit)
Promotes == IF mode = "multi" THEN tiers[Last.hit].promo ELSE TRUE

\* C27: a get that hit below the first tier and promotes returns the value
\* whatever the promotion writes did, has attempted the write on every tier
\* above the hit even when one of them failed, and has raised promotions by
\* the number of writes that succeeded.
C27_FailedPromotionSkipped ==
  (GetDone /\ Last.hit > 1 /\ Promotes) =>
    /\ Last.ret = Found(Last.val)
    /\ Last.att = 1..(Last.hit - 1)
    /\ Last.succ \subseteq Last.att
    /\ stats.promotions - Last.s0.promotions = Cardinality(Last.succ)

\* a hit at the third tier: the write to the second tier failed, the write
\* to the first tier was made after it and succeeded
C27_Witness ==
  /\ GetDone /\ Last.hit = 3 /\ Promotes
  /\ Last.att = {1, 2} /\ Last.succ = {1}
  /\ Last.ret = Found("v1")
  /\ stats.promotions = Last.s0.promotions + 1

\* C28: in multi-tier mode a get_or_compute_with or get_or_compute_typed
\* that hit at a tier below the first has attempted a promotion write on
\* every tier above the hit when that tier's promotion_enabled is true and on
\* none when it is false, and has counted the hit in l2_hits, as get does.
C28_ComputePromotesAsGet ==
  (Last.pc = "done" /\ IsCompute(Last.op) /\ mode = "multi" /\ Last.hit > 1) =>
    /\ Last.att = (IF tiers[Last.hit].promo THEN 1..(Last.hit - 1) ELSE {})
    /\ stats.l2_hits = Last.s0.l2_hits + 1

\* the step is the return of a publish that succeeded
Published == Last.pc = "publish" /\ call'[1].pc = "done" /\ call'[1].ret = SetOk

\* C29: invalidate reaches the publisher only after a remove has been issued
\* on every tier, and only when the manager has a publisher; a successful
\* publish of invalidate hands Remove{k} to the channel and a step of
\* invalidate puts a message on the channel at no other moment;
\* messages_sent rises by one at each successful publish and at no other
\* step (not at a failed publish), and stays 0 without a publisher.
C29_PublishAfterRemoves ==
  /\ []((Last.op = "invalidate" /\ Last.pc \in {"pub_lock", "publish"}) =>
          (invalidation /\ Last.att = 1..NTiers))
  /\ [](~invalidation => messages_sent = 0)
  /\ [][/\ messages_sent' = messages_sent + (IF Published THEN 1 ELSE 0)
        /\ (Published /\ Last.op = "invalidate") =>
             inbox' = Delivered(ToJson(MsgRemove(Last.key)))
        /\ (Last.op = "invalidate" /\ call' # call /\ inbox' # inbox) => Published]_vars

\* after one message was sent, the publish of an invalidate whose removes
\* all succeeded failed: messages_sent is still 1
C29_Witness ==
  /\ InvalidateDone /\ Last.ret = Failed /\ Last.succ = 1..NTiers
  /\ messages_sent = 1

\* C30: a completed update_cache has attempted the write on every tier and,
\* unless its publish failed, returned Ok if and only if at least one tier
\* write succeeded; it reaches the publisher only after the tier writes.
C30_UpdateWritePathRule ==
  /\ (Last.op = "update" /\ Last.pc \in {"pub_lock", "publish"}) => Last.att = 1..NTiers
  /\ (Last.op = "update" /\ Last.pc = "done") =>
       /\ Last.att = 1..NTiers
       /\ ~(invalidation /\ Last.succ = 1..NTiers) =>
            (Last.ret = SetOk <=> Last.succ # {})

\* The per-kind counters of a subscriber and their sum
KindCounters ==
  {"removes_received", "updates_received", "patterns_received", "bulk_removes_received"}
KindSum(s) ==
  s.removes_received + s.updates_received + s.patterns_received + s.bulk_removes_received
KindCounterOf(j) ==
  IF j.type = "Remove" THEN "removes_received"
  ELSE IF j.type = "Update" THEN "updates_received"
  ELSE IF j.type = "RemovePattern" THEN "patterns_received"
  ELSE "bulk_removes_received"

\* a step in which the subscriber of instance i takes a payload
Takes(i) == Len(inbox'[i]) < Len(inbox[i])

\* C31: for each payload a subscriber takes: one that does not decode (an
\* unknown type tag included) raises processing_errors by one, changes no
\* tier and leaves the rest of the payloads to be taken; one that decodes
\* raises messages_received and the counter of its kind by one and no other
\* counter; and in every state messages_received is the sum of the four
\* per-kind counters.
C31_CountsEachPayload ==
  /\ [](\A i \in Instances : sub_stats[i].messages_received = KindSum(sub_stats[i]))
  /\ [][\A i \in Instances :
          Takes(i) =>
            LET j == Head(inbox[i]) IN
            /\ inbox'[i] = Tail(inbox[i])
            /\ \A o \in Instances \ {i} : sub_stats'[o] = sub_stats[o]
            /\ IF FromJson(j) = None
                 THEN /\ sub_stats'[i] =
                           [sub_stats[i] EXCEPT !.processing_errors = @ + 1]
                      /\ store' = store
                      /\ peerL1' = peerL1
                 ELSE sub_stats'[i] =
                        [sub_stats[i] EXCEPT !.messages_received = @ + 1,
                                             ![KindCounterOf(j)] = @ + 1]]_vars

\* both cases have happened at one subscriber: it skipped a payload that did
\* not decode and counted an Update that did
C31_Witness ==
  \E i \in Instances :
    /\ sub_stats[i].processing_errors = 1
    /\ sub_stats[i].messages_received = 1
    /\ sub_stats[i].updates_received = 1
    /\ inbox[i] = <<>>

C32_RestStillRemoved ==
  \A i \in Instances :
    LET a == applied[i] IN
    (IsSome(a.msg) /\ Unwrap(a.msg).type = "RemoveBulk") =>
      \A k \in Range(Unwrap(a.msg).keys) \ a.failed : a.after[k] = None

\* a step in which run_subscriber_loop returns Err: the connection or the
\* subscription failed, or the message stream ended
LoopReturnsErr ==
  /\ task.pc \in {"connecting", "subscribing", "waiting"}
  /\ sub_stats'["A"].processing_errors = sub_stats["A"].processing_errors + 1

\* payloads the task has taken off its connection: every one published was
\* delivered to it
PayloadsTaken == opsStarted - Len(inbox["A"])

\* C33: when the message stream ends or a connect or subscribe attempt fails
\* and shutdown() has not been called, the task does not end but sleeps;
\* from the sleep it goes nowhere but to a new connection attempt, and it
\* does get there; and a message that is on the connection once the task has
\* connected and subscribed again is applied.
C33_ReconnectsAfterFailure ==
  /\ [][(LoopReturnsErr /\ shutdowns = 0) => task'.pc = "sleeping"]_vars
  /\ [][(task.pc = "sleeping" /\ task'.pc # "sleeping" /\ shutdowns = 0) =>
          /\ task'.pc = "connecting"
          /\ task'.attempts = task.attempts + 1]_vars
  /\ [](task.pc = "sleeping" => <>(task.pc = "connecting" \/ shutdowns > 0))
  /\ [](\A n \in 0..MaxBusOps :
          (task.attempts >= 2 /\ task.pc = "waiting" /\ inbox["A"] # <<>>
             /\ PayloadsTaken = n)
            => <>(PayloadsTaken > n \/ shutdowns > 0))

\* the task has failed, slept, connected and subscribed again and is now
\* applying a Remove that it took off the new connection
C33_Witness ==
  /\ task.attempts >= 2
  /\ task.pc = "handling"
  /\ shutdowns = 0
  /\ sub_stats["A"].processing_errors >= 1
  /\ sub_stats["A"].messages_received = 0
  /\ Head(inbox["A"]) = ToJson(MsgRemove("k1"))

\* payloads ever put on the channel, as instance i's connection saw them:
\* those it has taken and those still waiting on it
Emitted(i) == Len(inbox[i]) + Handled(i)

\* a step in which another publisher on the channel publishes
ForeignStep == invalidation /\ opsStarted' = opsStarted + 1 /\ call' = call

\* C34: a step in which a subscriber takes and applies a payload puts
\* nothing on the channel and leaves messages_sent alone; the channel gains
\* a payload exactly at a successful publish of one of the manager's calls
\* (which is when messages_sent rises) and when another publisher publishes,
\* so the payloads ever emitted never exceed the operations started, own
\* messages received back included.
C34_ApplyingNeverPublishes ==
  /\ [][/\ \A i \in Instances :
             Takes(i) =>
               /\ \A o \in Instances : Emitted(o)' = Emitted(o)
               /\ messages_sent' = messages_sent
               /\ call' = call
        /\ \A i \in Instances :
             Emitted(i)' = Emitted(i) + (IF Published \/ ForeignStep THEN 1 ELSE 0)
        /\ Published <=> messages_sent' = messages_sent + 1]_vars
  /\ [](\A i \in Instances : messages_sent <= Emitted(i) /\ Emitted(i) <= opsStarted)

\* the manager has published two messages and its own subscriber has applied
\* both of them: nothing more is on the channel
C34_Witness ==
  /\ messages_sent = 2
  /\ sub_stats["A"].messages_received = 2
  /\ \A i \in Instances : Emitted(i) = 2
  /\ inbox["A"] = <<>>

\* the top tier holds for the call's key a value that does not deserialize
\* to T, and the call has written nothing yet
TopTierUndeserializable(cl) ==
  /\ IsSome(store[1][cl.key])
  /\ ~Deser(Unwrap(store[1][cl.key]).val)
  /\ cl.succ = {}

\* C35: a get_or_compute_typed call that found in the top tier a value that
\* does not deserialize to T never invokes compute: it has returned an
\* error, with compute not invoked since the call started.
C35_DeserFailureReturned ==
  (Last.op = "goct" /\ Last.pc \in {"compute", "release", "unlock", "done"}
     /\ TopTierUndeserializable(Last)) =>
    /\ Last.pc = "done"
    /\ Last.ret = Failed
    /\ computeCount[Last.key] = Last.c0

\* C36: after set_with_strategy(k, v, Custom(T)) has returned, with gets and
\* their promotions the only later operations on k, every tier that holds k
\* holds it with an expiry, and one no later than T times the largest
\* ttl_scale after the write (the write is made at time 0).
C36_PromotionNeverExtends ==
  call[1].pc = "done" =>
    \A t \in 1..NTiers :
      IsSome(store[t]["k1"]) =>
        LET e == Unwrap(store[t]["k1"]) IN
        /\ IsSome(e.ttl)
        /\ ticks + Unwrap(e.ttl) <= call[1].ttl * LargestScale(tiers)

\* C37: once invalidate(k) has returned, its remove having succeeded on
\* every tier, and with no write or compute of k started afterwards, no
\* tier holds k, whatever a get(k) that was running meanwhile does.
C37_InvalidatedStaysGone ==
  (call[2].op = "invalidate" /\ call[2].pc = "done" /\ call[2].succ = 1..NTiers) =>
    \A t \in 1..NTiers : store[t]["k1"] = None

\* C38: a manager's own messages coming back to it change nothing a get
\* would return: once set_with_strategy(k, v2), made after update_cache(k,
\* v1), has returned with the top tier written, the top tier holds v2 and
\* the get made next returns v2 - whenever the subscriber takes the
\* manager's own Update{k, v1}.
C38_SelfReceiptHarmless ==
  /\ (Last.op = "set" /\ Last.pc = "done" /\ 1 \in Last.succ) =>
       HeldValue(1, "k1") = Last.val
  /\ (Last.op = "get" /\ Last.pc = "done") => Last.ret = Found("v2")

\* C39: once two concurrent update_cache calls on one key have both returned
\* Ok and every message has been delivered and applied, the top tier of
\* every subscribed instance holds for the key the value the origin's tiers
\* hold.
C39_UpdatesConverge ==
  (/\ \A c \in 1..2 : call[c].op = "update" /\ call[c].pc = "done" /\ call[c].ret = SetOk
   /\ \A i \in Instances : inbox[i] = <<>>) =>
    /\ HeldValue(1, "k1") = HeldValue(2, "k1")
    /\ \A i \in Instances : ValueOf(L1Of(i), "k1") = HeldValue(2, "k1")

\* C40: the snapshot that get_invalidation_stats returns on a manager with a
\* subscriber reports what that subscriber has counted - messages_received
\* and the per-kind counters - alongside messages_sent.
C40_SnapshotReflectsSubscriber ==
  invalidation =>
    /\ IsSome(get_invalidation_stats)
    /\ Unwrap(get_invalidation_stats).messages_sent = messages_sent
    /\ \A f \in KindCounters \cup {"messages_received"} :
         Unwrap(get_invalidation_stats)[f] = sub_stats["A"][f]

====
